---------------------------- MODULE CaseLifecycle ---------------------------
(***************************************************************************)
(* What the bot promises about a moderation case, whatever fails: it is    *)
(* opened before Discord is asked for anything, the action is performed    *)
(* while the case is open and at most once, "succeeded" is only recorded   *)
(* of an action that was performed, the log entry is queued in the same    *)
(* step that closes the case, it is posted with the outcome and never      *)
(* before, it counts as sent only once it was posted, and a full outbox    *)
(* gives up an entry that was sent before one that was not.                *)
(***************************************************************************)
EXTENDS Naturals

CONSTANT Cases

VARIABLE life   \* [status, performed, posted, log] of each case

Unopened == [status |-> "none", performed |-> FALSE, posted |-> FALSE, log |-> "none"]

Init == life = [c \in Cases |-> Unopened]

Open(c) ==
  /\ life[c] = Unopened
  /\ life' = [life EXCEPT ![c].status = "pending"]

Perform(c) ==
  /\ life[c].status = "pending" /\ ~life[c].performed
  /\ life' = [life EXCEPT ![c].performed = TRUE]

(* Logs that may be given up: none, or one; a sent one if there is any.    *)
Droppable(c) ==
  LET queued == {d \in Cases \ {c} : life[d].log = "queued"}
      sent == {d \in Cases \ {c} : life[d].log = "sent"}
  IN  {{}} \cup {{d} : d \in IF sent # {} THEN sent ELSE queued}

Close(c, outcome) ==
  /\ life[c].status = "pending"
  /\ outcome = "succeeded" => life[c].performed
  /\ \E dropped \in Droppable(c) :
       life' = [d \in Cases |->
         IF d = c THEN [life[c] EXCEPT !.status = outcome, !.log = "queued"]
         ELSE IF d \in dropped THEN [life[d] EXCEPT !.log = "none"]
         ELSE life[d]]

Post(c) ==
  /\ life[c].status \in {"succeeded", "failed"}
  /\ life' = [life EXCEPT ![c].posted = TRUE]

Send(c) ==
  /\ life[c].log = "queued" /\ life[c].posted
  /\ life' = [life EXCEPT ![c].log = "sent"]

Purge(purged) ==
  /\ \A c \in purged : life[c].status # "none"
  /\ life' = [c \in Cases |->
       IF c \in purged THEN [life[c] EXCEPT !.status = "purged", !.log = "none"] ELSE life[c]]

Next ==
  \/ \E c \in Cases :
       Open(c) \/ Perform(c) \/ Close(c, "succeeded") \/ Close(c, "failed") \/ Post(c) \/ Send(c)
  \/ \E purged \in SUBSET Cases : Purge(purged)

Spec == Init /\ [][Next]_life
=============================================================================
