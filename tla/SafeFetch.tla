----------------------------- MODULE SafeFetch -----------------------------
(***************************************************************************)
(* One guarded download: open_download and iter_capped in the thread that  *)
(* reads, the watchdog's timer thread, and a host that may answer, drip,   *)
(* stall, redirect, reset the connection or close it early.                *)
(*                                                                         *)
(* The two threads share the connection, a dup() of its socket and a flag. *)
(* The watchdog's lock is held while timer = "firing". The flag is read    *)
(* without it.                                                             *)
(*                                                                         *)
(* Its names differ from AssetCache's, the cache that makes the downloads, *)
(* so that a module can extend both.                                       *)
(***************************************************************************)
EXTENDS Naturals

CONSTANTS
  MaxRedirects,  \* _MAX_REDIRECTS
  DupFails       \* can dup() fail, as in a process out of descriptors?

ASSUME SafeFetchAssumption == MaxRedirects \in Nat /\ DupFails \in BOOLEAN

VARIABLES
  reader,  \* where open_download is
  result,  \* how the hop, and in the end the download, came out
  hop,     \* redirects followed
  url,     \* would url_ok accept the URL of this hop?
  late,    \* deadline_at has passed
  conn,    \* the connection
  sized,   \* is the body's length known, or does it end when the host closes?
  body,    \* what has been read of it
  dup,     \* _Watchdog._sock
  timer,   \* _Watchdog._timer and its thread
  fired    \* _Watchdog.fired

fetchVars == <<reader, result, hop, url, late, conn, sized, body, dup, timer, fired>>
guard == <<dup, timer, fired>>
reply == <<conn, sized, body>>

FetchTypeOK ==
  /\ reader \in {"vet", "resolve", "connect", "headers", "body", "ended", "cancel", "done"}
  /\ result \in {"none", "redirected", "delivered", "failed"}
  /\ hop \in 0 .. MaxRedirects
  /\ url \in {"allowed", "refused"}
  /\ late \in BOOLEAN
  /\ conn \in {"none", "up", "shut", "reset"}
  /\ sized \in BOOLEAN
  /\ body \in {"none", "part", "whole", "short", "cut"}
  /\ dup \in {"none", "held", "closed"}
  /\ timer \in {"off", "armed", "firing", "over"}
  /\ fired \in BOOLEAN

FetchInit ==
  /\ reader = "vet" /\ result = "none" /\ hop = 0
  /\ url \in {"allowed", "refused"}
  /\ late = FALSE
  /\ conn = "none" /\ sized = FALSE /\ body = "none"
  /\ dup = "none" /\ timer = "off" /\ fired = FALSE

-----------------------------------------------------------------------------
(* The reading thread. Leaving a hop is "cancel", the finally clause.      *)
Leave(how) == reader' = "cancel" /\ result' = how
Give(up)   == IF up THEN reader' = "done" /\ result' = "failed"
                    ELSE UNCHANGED result

(* Mutant: redirect targets are not checked.                               *)
VetFirst ==
  /\ reader = "vet"
  /\ \/ (late \/ (hop = 0 /\ url = "refused")) /\ Give(TRUE)
     \/ ~late /\ (hop > 0 \/ url = "allowed") /\ Give(FALSE) /\ reader' = "resolve"
  /\ UNCHANGED <<hop, url, late, reply, guard>>

(* Before every hop: the deadline, then url_ok.                            *)
Vet ==
  /\ reader = "vet"
  /\ \/ (late \/ url = "refused") /\ Give(TRUE)
     \/ ~late /\ url = "allowed" /\ Give(FALSE) /\ reader' = "resolve"
  /\ UNCHANGED <<hop, url, late, reply, guard>>

(* _dns_in_time: the lookup is waited for at most the hop's timeout.       *)
Resolve ==
  /\ reader = "resolve"
  /\ \/ Give(TRUE)
     \/ Give(FALSE) /\ reader' = "connect"
  /\ UNCHANGED <<hop, url, late, reply, guard>>

(* Connecting is bounded by httpx's timeout. _Watchdog.trace arms the      *)
(* timer with a dup of the raw socket, or, silently, does not.             *)
Connect ==
  /\ reader = "connect"
  /\ \/ Leave("failed") /\ UNCHANGED <<conn, dup, timer>>
     \/ /\ reader' = "headers" /\ conn' = "up"
        /\ \E armed \in IF DupFails THEN BOOLEAN ELSE {TRUE} :
             /\ dup' = IF armed THEN "held" ELSE "none"
             /\ timer' = IF armed THEN "armed" ELSE "off"
        /\ UNCHANGED result
  /\ UNCHANGED <<hop, url, late, sized, body, fired>>

(* TLS and the response's headers. What arrived before a shutdown can      *)
(* still be read after it.                                                 *)
Headers ==
  /\ reader = "headers" /\ conn \in {"up", "shut"}
  /\ \/ reader' = "body" /\ sized' \in BOOLEAN /\ UNCHANGED result
     \/ Leave("redirected") /\ UNCHANGED sized
  /\ UNCHANGED <<hop, url, late, conn, body, guard>>

(* iter_capped: each read is followed by the size and deadline checks.     *)
Chunk ==
  /\ reader = "body" /\ conn \in {"up", "shut"}
  /\ \/ ~late /\ body' = "part" /\ UNCHANGED <<reader, result>>
     \/ Leave("failed") /\ UNCHANGED body
  /\ UNCHANGED <<hop, url, late, conn, sized, guard>>

(* The end of the body. When only the end of the connection marks it, an   *)
(* early close by the host and our own shutdown look the same.             *)
EndOfBody ==
  /\ reader = "body" /\ conn \in {"up", "shut"}
  /\ reader' = "ended"
  /\ \/ body' = "whole"
     \/ ~sized /\ body' = IF conn = "up" THEN "short" ELSE "cut"
  /\ UNCHANGED <<result, hop, url, late, conn, sized, guard>>

(* A read raises: a broken connection, an error status, httpx's timeout,   *)
(* the task's soft time limit.                                             *)
ReadFails ==
  /\ reader \in {"headers", "body"}
  /\ Leave("failed")
  /\ UNCHANGED <<hop, url, late, reply, guard>>

(* Mutant: a body that ended cleanly is taken for a success.               *)
CheckEndOnly ==
  /\ reader = "ended"
  /\ Leave("delivered")
  /\ UNCHANGED <<hop, url, late, reply, guard>>

(* Back in open_download after the caller's block: did the watchdog fire?  *)
Check ==
  /\ reader = "ended"
  /\ Leave(IF fired THEN "failed" ELSE "delivered")
  /\ UNCHANGED <<hop, url, late, reply, guard>>

MayFollow == hop < MaxRedirects

(* After a redirect, the next URL with a watchdog of its own; or the end.  *)
NextHop ==
  IF result = "redirected" /\ MayFollow
    THEN /\ reader' = "vet" /\ result' = "none" /\ hop' = hop + 1
         /\ url' \in {"allowed", "refused"}
         /\ dup' = "none" /\ timer' = "off" /\ fired' = FALSE
    ELSE /\ reader' = "done"
         /\ result' = IF result = "redirected" THEN "failed" ELSE result
         /\ dup' = IF dup = "held" THEN "closed" ELSE dup
         /\ timer' = IF timer = "armed" THEN "over" ELSE timer
         /\ UNCHANGED <<hop, url, fired>>

(* Mutant: cancel does not take the lock.                                  *)
CancelUnlocked ==
  /\ reader = "cancel"
  /\ NextHop
  /\ conn' = "none"
  /\ UNCHANGED <<late, sized, body>>

(* _Watchdog.cancel takes the lock, so it waits for _fire.                 *)
Cancel ==
  /\ reader = "cancel" /\ timer # "firing"
  /\ NextHop
  /\ conn' = "none"
  /\ UNCHANGED <<late, sized, body>>

-----------------------------------------------------------------------------
(* Time, the watchdog's thread and the host.                               *)
Deadline ==
  /\ ~late /\ late' = TRUE
  /\ UNCHANGED <<reader, result, hop, url, reply, guard>>

(* _fire takes the lock, finds the socket, and says so before it acts.     *)
Fire ==
  /\ timer = "armed" /\ late /\ dup = "held"
  /\ timer' = "firing" /\ fired' = TRUE
  /\ UNCHANGED <<reader, result, hop, url, late, reply, dup>>

(* Mutant: what is shut down is the socket object that TLS has detached.   *)
ShutDetached ==
  /\ timer = "firing"
  /\ timer' = "over"
  /\ UNCHANGED <<reader, result, hop, url, late, reply, dup, fired>>

(* shutdown() of the dup: an OSError when the connection is gone already.  *)
Shut ==
  /\ timer = "firing"
  /\ timer' = "over"
  /\ fired' = (conn # "reset")
  /\ conn' = IF conn = "up" THEN "shut" ELSE conn
  /\ UNCHANGED <<reader, result, hop, url, late, sized, body, dup>>

(* The host resets the connection.                                         *)
Reset ==
  /\ conn = "up" /\ conn' = "reset"
  /\ UNCHANGED <<reader, result, hop, url, late, sized, body, guard>>

FetchNext ==
  \/ Vet \/ Resolve \/ Connect \/ Headers \/ Chunk \/ EndOfBody \/ ReadFails
  \/ Check \/ Cancel
  \/ Deadline \/ Fire \/ Shut \/ Reset

(* Both threads run, the waits that have a timeout end, and time passes.   *)
(* Nothing is assumed of the host: a read of a live connection may never   *)
(* return, one of a connection that is gone does.                          *)
Fairness ==
  /\ WF_fetchVars(Vet) /\ WF_fetchVars(Resolve) /\ WF_fetchVars(Connect)
  /\ WF_fetchVars(Check) /\ WF_fetchVars(Cancel)
  /\ WF_fetchVars(conn # "up" /\ ReadFails)
  /\ WF_fetchVars(Deadline) /\ WF_fetchVars(Fire) /\ WF_fetchVars(Shut)

FetchSpec == FetchInit /\ [][FetchNext]_fetchVars /\ Fairness

-----------------------------------------------------------------------------
(* A body that the watchdog cut off is never handed on as a download,      *)
(* although a body that ends with its connection ends cleanly either way.  *)
CutOffNeverDelivered == result = "delivered" => body # "cut"

(* No connection is made to a host the caller does not allow, on whatever  *)
(* hop the URL turned up.                                                  *)
VettedHostsOnly == conn # "none" => url = "allowed"

(* The watchdog never acts on a descriptor that was closed, and which the  *)
(* process may have given to another file since.                           *)
ShutsItsOwnSocket == [][timer = "firing" /\ timer' # "firing" => dup = "held"]_fetchVars

(* Whatever the host does, the download ends.                              *)
DownloadEnds == <>(reader = "done")
=============================================================================
