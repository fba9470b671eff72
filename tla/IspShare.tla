------------------------------ MODULE IspShare ------------------------------
(***************************************************************************)
(* The list of processes that may use the memory of one ISP pipe, with     *)
(* process isolation on.  Every operation runs under share_sem, so each is *)
(* one action; a call that is refused changes nothing and is left out.     *)
(***************************************************************************)
EXTENDS Integers

CONSTANTS
  Procs,  \* processes (thread group ids)
  NoPid,  \* ISP_INVALID_PID
  ShareLen \* ISP_SHARE_ID_LEN

VARIABLES
  share_pid,    \* the processes, share_pid[0] the main one, with holes
  share_all_en,
  revoked       \* history: shared once, unshared last

vars == <<share_pid, share_all_en, revoked>>

Index == 0 .. ShareLen - 1
Cleared == [i \in Index |-> NoPid]
Main == share_pid[0]

\* isp_drv_mem_share_init.
Init ==
  /\ share_pid = Cleared
  /\ share_all_en = FALSE
  /\ revoked = {}

\* isp_drv_mem_share_owner: the process that initialises the ISP.
ShareOwner(p) ==
  /\ Main = NoPid
  /\ share_pid' = [share_pid EXCEPT ![0] = p]
  /\ revoked' = revoked \ {p}
  /\ UNCHANGED share_all_en

\* isp_drv_mem_share_exit, when the main process resets the context.
ShareExit(p) ==
  /\ Main \in {NoPid, p}
  /\ share_pid' = Cleared
  /\ share_all_en' = FALSE
  /\ UNCHANGED revoked

\* The slots that the loop of isp_drv_mem_share_pid passes.
Passed == {i \in Index : \A j \in 0 .. i : share_pid[j] # NoPid}

\* isp_drv_mem_share_pid: q is entered at the first hole, unless it is met
\* before it.
SharePid(p, q) ==
  /\ p = Main /\ q # Main /\ ~share_all_en
  /\ \A i \in Passed : share_pid[i] # q
  /\ \E i \in Index \ Passed :
       /\ i = 0 \/ i - 1 \in Passed
       /\ share_pid' = [share_pid EXCEPT ![i] = q]
  /\ revoked' = revoked \ {q}
  /\ UNCHANGED share_all_en

\* isp_drv_mem_unshare_pid: the first entry of q becomes a hole.
UnsharePid(p, q) ==
  /\ p \in {Main, q} /\ q # Main /\ ~share_all_en
  /\ \E i \in Index \ {0} :
       /\ share_pid[i] = q /\ \A j \in 1 .. i - 1 : share_pid[j] # q
       /\ share_pid' = [share_pid EXCEPT ![i] = NoPid]
  /\ revoked' = revoked \union {q}
  /\ UNCHANGED share_all_en

\* isp_drv_mem_share_all and isp_drv_mem_unshare_all.
SetShareAll(p, all) ==
  /\ p = Main
  /\ share_all_en' = all
  /\ UNCHANGED <<share_pid, revoked>>

Next ==
  \E p \in Procs :
    \/ ShareOwner(p) \/ ShareExit(p)
    \/ \E q \in Procs : SharePid(p, q) \/ UnsharePid(p, q)
    \/ \E all \in BOOLEAN : SetShareAll(p, all)

Spec == Init /\ [][Next]_vars
-----------------------------------------------------------------------------
\* isp_drv_mem_verify_pid.
Verify(q) == share_all_en \/ \E i \in Index : share_pid[i] = q

(* A process is on the list once ("already share to process"), so a        *)
(* process that was unshared fails isp_drv_mem_verify_pid until the list   *)
(* or all processes are shared again.                                      *)
UnshareRevokes == \A q \in revoked : Verify(q) => share_all_en
=============================================================================
