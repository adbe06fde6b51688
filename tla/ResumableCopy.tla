---------------------------- MODULE ResumableCopy ----------------------------
(***************************************************************************)
(* What one client's resumable upload promises: the device holds the first *)
(* stored cells of the file, in order and nothing else; what it delivers   *)
(* is the whole file; the client is told "ok" only when it is delivered,   *)
(* and is always told something.                                           *)
(***************************************************************************)
EXTENDS Integers

CONSTANT Whole            (* the length of the file, at least 1            *)

VARIABLES stored, delivered, verdict

vars == <<stored, delivered, verdict>>

Init == stored = 0 /\ delivered = FALSE /\ verdict = "none"

(* The user starts an upload, or starts it again.                          *)
Ask ==
  /\ verdict \in {"none", "failed"}
  /\ verdict' = "pending"
  /\ UNCHANGED <<stored, delivered>>

Store ==
  /\ stored' \in (stored + 1)..Whole
  /\ UNCHANGED <<delivered, verdict>>

(* The device starts over with more, or less, of the file.                 *)
StartOver ==
  /\ stored' \in 0..(stored - 1)
  /\ UNCHANGED <<delivered, verdict>>

Deliver ==
  /\ stored = Whole
  /\ stored' = 0
  /\ delivered' = TRUE
  /\ UNCHANGED verdict

(* What was delivered is replaced: only while the whole file is stored.    *)
Replace ==
  /\ stored = Whole
  /\ delivered' = FALSE
  /\ UNCHANGED <<stored, verdict>>

Report ==
  /\ verdict = "pending"
  /\ \/ verdict' = "ok" /\ delivered
     \/ verdict' = "failed"
  /\ UNCHANGED <<stored, delivered>>

Next == Ask \/ Store \/ StartOver \/ Deliver \/ Replace \/ Report

Spec == Init /\ [][Next]_vars /\ WF_vars(Report)
=============================================================================
