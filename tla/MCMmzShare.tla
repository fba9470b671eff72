----------------------------- MODULE MCMmzShare -----------------------------
(* One process that shares its block with its children. *)
EXTENDS MmzShare

CONSTANTS owner, fd1, fd2

(* One process opens the device twice, as the library does (g_mem_fd, which  *)
(* makes the ioctls, and g_mem_cache_fd); its children inherit the first.   *)
OneOpener == [f \in Files |-> owner]
OneCaller == [p \in Procs |-> {fd1}]

ASSUME OneUser
=============================================================================
