-------------------------- MODULE DiscordMessages --------------------------
(***************************************************************************)
(* The messages the bot has posted, as Discord keeps them, and the         *)
(* bindings by which the bot finds the cards it edits in place.            *)
(*                                                                         *)
(* Discord is not part of the repository: a message is created, found,     *)
(* edited and deleted as internal/discord uses it.  Every post carries an  *)
(* enforced nonce: while a message with that nonce is younger than         *)
(* NonceWindow, Discord creates no second one and answers with the first,  *)
(* deleted or not.                                                         *)
(***************************************************************************)
EXTENDS Integers, Sequences, FiniteSets

CONSTANTS
  Cards,         \* the messages edited in place: "dashboard", "leaders"
  NonceWindow,   \* how long Discord remembers a nonce, in ticks
  NoMessage

ASSUME CardAssumption == Cards \subseteq {"dashboard", "leaders"}

VARIABLES
  clock,      \* the time, in ticks
  messages,   \* the sequence of messages, in the order they were posted
  bindings,   \* message_bindings: the message and the channel of each card
  unrecorded, \* ghost: posts that the bot did not come to know or to record
  forgotten   \* ghost: posts whose record was dropped since

discordVars == <<messages, bindings, unrecorded, forgotten>>

DiscordInit ==
  /\ messages = <<>>
  /\ bindings = [c \in Cards |-> NoMessage]
  /\ unrecorded = {}
  /\ forgotten = {}

Live(m) == m # NoMessage /\ messages[m].live

Remembered(nonce) ==
  {m \in DOMAIN messages :
     messages[m].nonce = nonce /\ clock - messages[m].posted < NonceWindow}

(* The message a post with that nonce gives, and the messages after it.    *)
PostedAs(nonce) ==
  IF Remembered(nonce) # {}
  THEN CHOOSE m \in Remembered(nonce) : TRUE
  ELSE Len(messages) + 1

AfterPost(subject, key, at, channel, nonce) ==
  IF Remembered(nonce) # {}
  THEN messages
  ELSE Append(messages, [subject |-> subject, key |-> key, at |-> at, channel |-> channel,
                         nonce |-> nonce, posted |-> clock, live |-> TRUE])

AfterDelete(m) == [messages EXCEPT ![m].live = FALSE]

-----------------------------------------------------------------------------
(* DeleteMessageBindingByTarget, as if it went by the purpose of the card. *)
UnboundPurpose(m) ==
  [c \in Cards |-> IF messages[m].subject = <<"card", c>> THEN NoMessage ELSE bindings[c]]

(* DeleteMessageBindingByTarget.                                           *)
Unbound(m) ==
  [c \in Cards |-> IF bindings[c] = [msg |-> m, channel |-> messages[m].channel]
                   THEN NoMessage ELSE bindings[c]]

Shown(c) == IF bindings[c] = NoMessage THEN NoMessage ELSE bindings[c].msg
UpsertMessageBinding(c, m, channel) ==
  bindings' = [bindings EXCEPT ![c] = [msg |-> m, channel |-> channel]]
=============================================================================
