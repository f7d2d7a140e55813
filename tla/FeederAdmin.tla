----------------------------- MODULE FeederAdmin -----------------------------
(***************************************************************************)
(* The key of one community feeder: administration commands                *)
(* (internal/discord/feeders.go), enrollment and verification in the       *)
(* ingress (internal/source/agent/server.go) and the feeder's row and      *)
(* invitations (internal/storage/sqlite/store_feeders.go).                 *)
(*                                                                         *)
(* Commands are handled one at a time.  Each reads the row, changes its    *)
(* copy, writes the copy back and registers it with the feeder manager;    *)
(* enrollment requests and one ingress worker (the feeder's lock admits    *)
(* one) run between any two of these steps.  A statement or transaction on *)
(* the database is one step.                                               *)
(*                                                                         *)
(* "rename" stands for the commands that change only public metadata.      *)
(***************************************************************************)
EXTENDS Naturals, FiniteSets

CONSTANTS
  Keys,          \* key pairs that agents may generate
  Tokens,        \* invitation codes
  Enrollers,     \* concurrent enrollment requests
  MaxSequence,   \* bound on the sequence numbers of a key
  MaxCommands,   \* bound on administration commands
  None           \* stands for no key

ASSUME AdminAssumption == MaxSequence \in Nat /\ MaxCommands \in Nat
ASSUME NoneAssumption == None \notin Keys

Commands == {"invite", "rename", "enable", "disable", "rotate", "revoke"}

VARIABLES
  row,         \* the feeder's row: exists, enabled, key, sequence, hash
  tokens,      \* the state of every invitation
  registered,  \* descriptor.Enabled of the feeder manager's entry
  admin,       \* the command being handled: pc, command and feeder, its copy
  enroller,    \* each enrollment request: pc, key and copy of enabled
  worker,      \* the ingress worker: pc and the envelope's key and sequence
  sent,        \* last sequence each agent has signed with its key
  holders,     \* keys whose agents know they are enrolled
  commands,    \* commands so far
  answered,    \* history: the last command, once it is answered
  retired,     \* history: keys that were replaced or revoked
  accepted,    \* history: highest sequence accepted for each key
  activated    \* history: keys each invitation has activated

adminVars ==
  <<row, tokens, registered, admin, enroller, worker, sent, holders, commands, answered, retired,
    accepted, activated>>
agents == <<enroller, worker, sent, holders, accepted, activated>>

NoHash == <<None, 0>>
NoRow == [exists |-> FALSE, enabled |-> FALSE, key |-> None, sequence |-> 0,
          hash |-> NoHash]

AdminInit ==
  /\ row = NoRow
  /\ tokens = [t \in Tokens |-> "unissued"]
  /\ registered = FALSE
  /\ admin = [pc |-> "idle", command |-> "invite", feeder |-> NoRow]
  /\ enroller = [h \in Enrollers |-> [pc |-> "idle", key |-> None, enabled |-> FALSE]]
  /\ worker = [pc |-> "idle", key |-> None, sequence |-> 0]
  /\ sent = [k \in Keys |-> 0]
  /\ holders = {}
  /\ commands = 0
  /\ answered = "none"
  /\ retired = {}
  /\ accepted = [k \in Keys |-> 0]
  /\ activated = [t \in Tokens |-> {}]

-----------------------------------------------------------------------------
(* The row.                                                                *)

\* Mutant of UpsertFeeder: an existing row is replaced as a whole.
UpsertFeederWhole(feeder) == row' = [feeder EXCEPT !.exists = TRUE]

\* UpsertFeeder inserts the row; of an existing one it writes the descriptor
\* and leaves the key, the sequence and the hash alone.
UpsertFeeder(feeder) ==
  row' = IF row.exists THEN [row EXCEPT !.enabled = feeder.enabled]
                       ELSE [feeder EXCEPT !.exists = TRUE]

Retire == retired' = retired \cup ({row.key} \ {None})

\* RevokeFeeder: the key goes and with it every open invitation.
RevokeFeeder ==
  /\ row' = [row EXCEPT !.enabled = FALSE, !.key = None, !.hash = NoHash]
  /\ tokens' = [t \in Tokens |-> IF tokens[t] \in {"open", "expired"} THEN "revoked"
                                                                      ELSE tokens[t]]
  /\ Retire

-----------------------------------------------------------------------------
(* Commands.                                                               *)

Accepts(c) ==
  /\ c = "invite" <=> ~row.exists
  /\ c = "enable" => row.key # None

\* The feeder that the command will write and register.
Changed(c) ==
  CASE c \in {"invite", "rotate"} -> [NoRow EXCEPT !.exists = row.exists, !.enabled = TRUE]
    [] c = "enable" -> [row EXCEPT !.enabled = TRUE]
    [] c \in {"disable", "revoke"} -> [row EXCEPT !.enabled = FALSE]
    [] c = "rename" -> row

\* Read the row and change the copy.
CommandRead(c) ==
  /\ admin.pc = "idle"
  /\ commands < MaxCommands
  /\ Accepts(c)
  /\ commands' = commands + 1
  /\ answered' = "none"
  /\ admin' = [pc |-> IF c \in {"rotate", "revoke"} THEN "revoke" ELSE "upsert",
               command |-> c, feeder |-> Changed(c)]
  /\ UNCHANGED <<row, tokens, registered, retired>>
  /\ UNCHANGED agents

\* A database call of the command fails and the command ends, with whatever
\* it has done so far.
CommandFails ==
  /\ admin.pc \in {"revoke", "upsert", "invite"}
  /\ admin' = [admin EXCEPT !.pc = "idle"]
  /\ UNCHANGED <<row, tokens, registered, commands, answered, retired>>
  /\ UNCHANGED agents

CommandRevoke ==
  /\ admin.pc = "revoke"
  /\ RevokeFeeder
  /\ admin' = [admin EXCEPT !.pc = IF admin.command = "rotate" THEN "upsert"
                                                               ELSE "register"]
  /\ UNCHANGED <<registered, commands, answered>>
  /\ UNCHANGED agents

CommandUpsert ==
  /\ admin.pc = "upsert"
  /\ UpsertFeeder(admin.feeder)
  /\ admin' = [admin EXCEPT !.pc = "register"]
  /\ UNCHANGED <<tokens, registered, commands, answered, retired>>
  /\ UNCHANGED agents

\* Register, then answer; invite and rotate go on to create an invitation.
CommandRegister ==
  /\ admin.pc = "register"
  /\ registered' = admin.feeder.enabled
  /\ IF admin.command \in {"invite", "rotate"}
       THEN /\ admin' = [admin EXCEPT !.pc = "invite"]
            /\ UNCHANGED answered
       ELSE /\ admin' = [admin EXCEPT !.pc = "idle"]
            /\ answered' = admin.command
  /\ UNCHANGED <<row, tokens, commands, retired>>
  /\ UNCHANGED agents

createInvitation(t) ==
  /\ admin.pc = "invite"
  /\ tokens[t] = "unissued"
  /\ tokens' = [tokens EXCEPT ![t] = "open"]
  /\ admin' = [admin EXCEPT !.pc = "idle"]
  /\ answered' = admin.command
  /\ UNCHANGED <<row, registered, commands, retired>>
  /\ UNCHANGED agents

\* The invitation's fifteen minutes are over.
Expire(t) ==
  /\ tokens[t] = "open"
  /\ tokens' = [tokens EXCEPT ![t] = "expired"]
  /\ UNCHANGED <<row, registered, admin, commands, answered, retired>>
  /\ UNCHANGED agents

-----------------------------------------------------------------------------
(* Enrollment.                                                             *)

\* ConsumeFeederEnrollment's transaction, for a freshly generated key.
ConsumeEnrollment(h, t, k) ==
  /\ enroller[h].pc = "idle"
  /\ tokens[t] = "open"
  /\ \A u \in Tokens : k \notin activated[u]
  /\ tokens' = [tokens EXCEPT ![t] = "consumed"]
  /\ activated' = [activated EXCEPT ![t] = @ \cup {k}]
  /\ row' = [row EXCEPT !.key = k, !.sequence = 0, !.hash = NoHash, !.enabled = TRUE]
  /\ Retire
  /\ enroller' = [enroller EXCEPT ![h] = [pc |-> "read", key |-> k, enabled |-> FALSE]]
  /\ UNCHANGED <<registered, admin, worker, sent, holders, commands, answered, accepted>>

\* The row is read again after the commit.
EnrollmentRead(h) ==
  /\ enroller[h].pc = "read"
  /\ enroller' = [enroller EXCEPT ![h].pc = "register", ![h].enabled = row.enabled]
  /\ UNCHANGED <<row, tokens, registered, admin, worker, sent, holders, commands,
                 answered, retired, accepted, activated>>

\* The second read fails: the key is active and its agent never learns it.
EnrollmentFails(h) ==
  /\ enroller[h].pc = "read"
  /\ enroller' = [enroller EXCEPT ![h].pc = "idle"]
  /\ UNCHANGED <<row, tokens, registered, admin, worker, sent, holders, commands,
                 answered, retired, accepted, activated>>

\* Register and answer; the answer may be lost, and with it the enrollment.
EnrollmentRegister(h) ==
  /\ enroller[h].pc = "register"
  /\ registered' = enroller[h].enabled
  /\ holders' \in {holders, holders \cup {enroller[h].key}}
  /\ enroller' = [enroller EXCEPT ![h].pc = "idle"]
  /\ UNCHANGED <<row, tokens, admin, worker, sent, commands, answered, retired,
                 accepted, activated>>

-----------------------------------------------------------------------------
(* The ingress worker.                                                     *)

\* Take an envelope, new or sent again, under the feeder's lock and verify it
\* against the row.
WorkerVerify(k, s) ==
  /\ worker.pc = "idle"
  /\ k \in holders
  /\ s \in 1..(sent[k] + 1)
  /\ row.enabled /\ row.key = k
  /\ sent' = [sent EXCEPT ![k] = IF s > @ THEN s ELSE @]
  /\ worker' = [pc |-> "accept", key |-> k, sequence |-> s]
  /\ UNCHANGED <<row, tokens, registered, admin, enroller, holders, commands,
                 answered, retired, accepted, activated>>

\* AcceptFeederSequence reads the row again, but compares no key.
WorkerAccept ==
  LET hash == <<worker.key, worker.sequence>>
  IN /\ worker.pc = "accept"
     /\ \/ /\ row.enabled /\ row.key # None
           /\ worker.sequence > row.sequence
           /\ row' = [row EXCEPT !.sequence = worker.sequence, !.hash = hash]
           /\ accepted' = [accepted EXCEPT ![worker.key] =
                             IF worker.sequence > @ THEN worker.sequence ELSE @]
           /\ worker' = [worker EXCEPT !.pc = "publish"]
        \/ /\ row.enabled /\ row.key # None
           /\ worker.sequence = row.sequence /\ hash = row.hash
           /\ worker' = [worker EXCEPT !.pc = "publish"]
           /\ UNCHANGED <<row, accepted>>
        \/ /\ \/ ~row.enabled \/ row.key = None
              \/ worker.sequence < row.sequence
              \/ worker.sequence = row.sequence /\ hash # row.hash
           /\ worker' = [worker EXCEPT !.pc = "idle"]
           /\ UNCHANGED <<row, accepted>>
     /\ UNCHANGED <<tokens, registered, admin, enroller, sent, holders, commands,
                    answered, retired, activated>>

\* The transaction of AcceptFeederSequence fails.
WorkerFails ==
  /\ worker.pc = "accept"
  /\ worker' = [worker EXCEPT !.pc = "idle"]
  /\ UNCHANGED <<row, tokens, registered, admin, enroller, sent, holders, commands,
                 answered, retired, accepted, activated>>

\* FeederManager.Publish refuses a disabled feeder; either way the worker is
\* done.
WorkerPublish ==
  /\ worker.pc = "publish"
  /\ worker' = [worker EXCEPT !.pc = "idle"]
  /\ UNCHANGED <<row, tokens, registered, admin, enroller, sent, holders, commands,
                 answered, retired, accepted, activated>>

-----------------------------------------------------------------------------
AdminNext ==
  \/ \E c \in Commands : CommandRead(c)
  \/ CommandFails
  \/ CommandRevoke
  \/ CommandUpsert
  \/ CommandRegister
  \/ \E t \in Tokens : createInvitation(t) \/ Expire(t)
  \/ \E h \in Enrollers : \E t \in Tokens : \E k \in Keys : ConsumeEnrollment(h, t, k)
  \/ \E h \in Enrollers : EnrollmentRead(h) \/ EnrollmentFails(h) \/ EnrollmentRegister(h)
  \/ \E k \in Keys : \E s \in 1..MaxSequence : WorkerVerify(k, s)
  \/ WorkerAccept
  \/ WorkerFails
  \/ WorkerPublish

AdminSpec == AdminInit /\ [][AdminNext]_adminVars

-----------------------------------------------------------------------------
(* Properties.                                                             *)

Rows ==
  [exists : BOOLEAN, enabled : BOOLEAN, key : Keys \cup {None},
   sequence : 0..MaxSequence, hash : (Keys \cup {None}) \X (0..MaxSequence)]

\* Type correctness; only an existing feeder has a key or a sequence.
AdminTypeOK ==
  /\ row \in Rows
  /\ ~row.exists => row.key = None /\ row.sequence = 0
  /\ tokens \in [Tokens -> {"unissued", "open", "consumed", "revoked", "expired"}]
  /\ registered \in BOOLEAN
  /\ admin \in [pc : {"idle", "revoke", "upsert", "register", "invite"},
                command : Commands, feeder : Rows]
  /\ enroller \in [Enrollers -> [pc : {"idle", "read", "register"},
                                 key : Keys \cup {None}, enabled : BOOLEAN]]
  /\ worker \in [pc : {"idle", "accept", "publish"}, key : Keys \cup {None},
                 sequence : 0..MaxSequence]
  /\ worker.pc # "idle" => worker.key \in Keys
  /\ sent \in [Keys -> 0..MaxSequence]
  /\ holders \subseteq Keys
  /\ commands \in 0..MaxCommands
  /\ answered \in Commands \cup {"none"}
  /\ retired \subseteq Keys
  /\ accepted \in [Keys -> 0..MaxSequence]
  /\ activated \in [Tokens -> SUBSET Keys]

\* Every key an invitation has activated is the feeder's key until it is
\* revoked or replaced, and never after: a command that read the row before
\* the enrollment does not undo it, nor bring an old key back.
EnrolledKeyKept ==
  \A t \in Tokens : \A k \in activated[t] : k = row.key <=> k \notin retired

\* The stored sequence covers everything accepted for the current key, so no
\* envelope of it is accepted twice: a command that began before the worker's
\* acceptance does not set the sequence back.
SequenceCoversCurrentKey == row.key # None => row.sequence >= accepted[row.key]

\* An invitation activates at most one key.
InvitationSpentOnce == \A t \in Tokens : Cardinality(activated[t]) <= 1

\* Once the revocation is answered the row is disabled and has no key, until
\* another command: no enrollment under way or invitation issued before it
\* brings the feeder back.
RevokedRowStaysDisabled == answered = "revoke" => ~row.enabled /\ row.key = None

\* Once the revocation is answered the feeder is disabled in the registry.
RevokedIsDisabled == answered = "revoke" => ~registered

\* However administration commands, enrollments and deliveries interleave, the
\* row keeps the key an invitation activated, covers what was accepted for it,
\* spends an invitation once, and stays revoked.
RowSound ==
  AdminTypeOK /\ EnrolledKeyKept /\ SequenceCoversCurrentKey /\ InvitationSpentOnce
    /\ RevokedRowStaysDisabled

=============================================================================
