----------------------------- MODULE MCSyscall -----------------------------
(* Instances of Syscall for TLC.                                           *)
EXTENDS Syscall

(* All but psys_setpriority, whose header and code disagree on a scale.    *)
WithEpollPwait == DOMAIN Passed \ {"setpriority"}
WithoutEpollPwait == WithEpollPwait \ {"epoll_pwait"}

(* The largest errno, another one, 0, a descriptor or pid, an address and  *)
(* the last number check_map_error does not take for an error.             *)
MCAnswers == {-4095, -22, 0, 7, 7 * 4096, WordMod - 4096}
=============================================================================
