----------------------------- MODULE KXMessages -----------------------------
(***************************************************************************)
(* KXMessages (src/platforms/xcb/kxmessages.cpp): text broadcast over X    *)
(* client messages of one message type.  A message is cut into fragments   *)
(* of FragmentSize bytes (20 in the code); each fragment is a request of   *)
(* its own, so that fragments of several senders interleave, and a process *)
(* may die or start listening in the middle of a message.                  *)
(***************************************************************************)
EXTENDS Naturals, Sequences, FiniteSets, Functions

CONSTANTS Senders,       \* processes that broadcast
          Receivers,     \* KXMessages objects that accept the message type
          FragmentSize,  \* bytes in a client message
          Messages,      \* byte strings a sender may broadcast
          MaxSent,       \* bound on the broadcasts begun
          MaxNesting     \* event loops a slot of gotMessage() may nest

ASSUME KXMessagesAssumption ==
  /\ FragmentSize \in Nat \ {0}
  /\ Messages \subseteq Seq(Nat)
  /\ MaxSent \in Nat
  /\ MaxNesting \in Nat

NUL == 0
Idle == [window |-> <<>>]

VARIABLES
  sending,    \* sending[s]: the broadcast s is in the middle of, or Idle
  fresh,      \* fresh[s]: windows broadcastMessageX() created in s so far
  phase,      \* phase[r]: "new", "on" while the filter is installed, "off"
  queue,      \* queue[r]: client messages not dispatched yet
  incoming,   \* incoming[r]: incoming_messages, by window
  emitting,   \* emitting[r]: windows whose gotMessage() slots are running
  begun,      \* how many broadcasts were begun
  log,        \* the messages sent completely and who listened all along
  got         \* got[r]: the texts r emitted gotMessage() for

vars == <<sending, fresh, phase, queue, incoming, emitting, begun, log, got>>

\* The objects whose event filter is installed.
Listening == {r \in Receivers : phase[r] = "on"}

\* What the C string functions see of bytes: what precedes the first NUL.
CString(b) ==
  LET nuls == {i \in DOMAIN b : b[i] = NUL}
  IN  IF nuls = {} THEN b
      ELSE SubSeq(b, 1, (CHOOSE i \in nuls : \A j \in nuls : i <= j) - 1)

\* The bytes of the fragment at pos, padded with NUL.
Fragment(msg, pos) ==
  [i \in 1..FragmentSize |-> IF pos + i <= Len(msg) THEN msg[pos + i] ELSE NUL]

Init ==
  /\ sending = [s \in Senders |-> Idle]
  /\ fresh = [s \in Senders |-> 0]
  /\ phase = [r \in Receivers |-> "new"]
  /\ queue = [r \in Receivers |-> <<>>]
  /\ incoming = [r \in Receivers |-> [w \in {} |-> <<>>]]
  /\ emitting = [r \in Receivers |-> <<>>]
  /\ begun = 0
  /\ log = <<>>
  /\ got = [r \in Receivers |-> <<>>]

-----------------------------------------------------------------------------
(* Senders                                                                 *)

\* send_message_internal() is entered with the window w as the handle.
Begin(s, w, msg) ==
  /\ sending[s] = Idle
  /\ begun < MaxSent
  /\ begun' = begun + 1
  /\ sending' = [sending EXCEPT ![s] =
                   [window |-> w, msg |-> msg, pos |-> 0, to |-> {}]]
  /\ UNCHANGED <<phase, queue, incoming, emitting, log, got>>

\* broadcastMessage(): the handle is the object's own window, always the same.
BroadcastMessage(s, msg) == Begin(s, <<s, 0>>, msg) /\ UNCHANGED fresh

\* broadcastMessageX(): the handle is a new window.
BroadcastMessageX(s, msg) ==
  /\ fresh' = [fresh EXCEPT ![s] = @ + 1]
  /\ Begin(s, <<s, fresh'[s]>>, msg)

\* while (pos <= len), after pos has been advanced
MoreFragments_lt(msg, pos) == pos < Len(msg)
MoreFragments(msg, pos) == pos <= Len(msg)

\* The message type of the fragment at pos: the leading or the following one.
Leading(pos) == pos = 0

\* One round of the loop.  The message counts as sent with the fragment that
\* ends its text, or with the last one; it is addressed to the receivers that
\* were listening all along.
SendFragment(s) ==
  LET o == sending[s]
      ev == [window |-> o.window, leading |-> Leading(o.pos),
             data |-> Fragment(o.msg, o.pos)]
      to == IF o.pos = 0 THEN Listening ELSE o.to \cap Listening
      pos == o.pos + FragmentSize
      last == ~MoreFragments(o.msg, pos)
      text == CString(o.msg)
      sent == o.pos <= Len(text) /\ (last \/ Len(text) < pos)
  IN
  /\ o # Idle
  /\ queue' = [r \in Receivers |-> IF r \in Listening THEN Append(queue[r], ev)
                                   ELSE queue[r]]
  /\ sending' = [sending EXCEPT ![s] =
                   IF last THEN Idle ELSE [o EXCEPT !.pos = pos, !.to = to]]
  /\ log' = IF sent THEN Append(log, [text |-> text, to |-> to]) ELSE log
  /\ UNCHANGED <<fresh, phase, incoming, emitting, begun, got>>

\* The process dies, possibly in the middle of a message, and another one
\* connects: the server gives it the same window ids.
Restart(s) ==
  /\ sending' = [sending EXCEPT ![s] = Idle]
  /\ fresh' = [fresh EXCEPT ![s] = 0]
  /\ UNCHANGED <<phase, queue, incoming, emitting, begun, log, got>>

-----------------------------------------------------------------------------
(* Receivers                                                               *)

\* The constructor installs the event filter, the destructor removes it.
Start(r) ==
  /\ phase[r] = "new"
  /\ phase' = [phase EXCEPT ![r] = "on"]
  /\ UNCHANGED <<sending, fresh, queue, incoming, emitting, begun, log, got>>

Stop(r) ==
  /\ phase[r] = "on"
  /\ phase' = [phase EXCEPT ![r] = "off"]
  /\ queue' = [queue EXCEPT ![r] = <<>>]
  /\ incoming' = [incoming EXCEPT ![r] = [w \in {} |-> <<>>]]
  /\ emitting' = [emitting EXCEPT ![r] = <<>>]
  /\ UNCHANGED <<sending, fresh, begun, log, got>>

\* The text of window w once the C string buf has arrived.
Extended(f, w, leading, buf) ==
  IF w \in DOMAIN f /\ ~leading THEN f[w] \o buf ELSE buf

\* "middle of message, but we don't have the beginning"
Unknown_never(f, ev) == FALSE
Unknown(f, ev) == ev.window \notin DOMAIN f /\ ~ev.leading

\* nativeEventFilter() up to the emission of gotMessage(), if the fragment is
\* the last one.
Dispatch(r) ==
  LET ev == Head(queue[r])
      buf == CString(ev.data)
      f == incoming[r]
      text == Extended(f, ev.window, ev.leading, buf)
      last == Len(buf) < FragmentSize
  IN
  /\ phase[r] = "on" /\ queue[r] # <<>> /\ Len(emitting[r]) <= MaxNesting
  /\ queue' = [queue EXCEPT ![r] = Tail(@)]
  /\ IF Unknown(f, ev)
       THEN UNCHANGED <<incoming, emitting, got>>
       ELSE /\ incoming' = [incoming EXCEPT ![r] =
                 [w \in DOMAIN f \cup {ev.window} |->
                    IF w = ev.window THEN text ELSE f[w]]]
            /\ emitting' = [emitting EXCEPT ![r] =
                 IF last THEN Append(@, ev.window) ELSE @]
            /\ got' = [got EXCEPT ![r] = IF last THEN Append(@, text) ELSE @]
  /\ UNCHANGED <<sending, fresh, phase, begun, log>>

\* incoming_messages without the entry of w
Removed(f, w) == Restrict(f, DOMAIN f \ {w})

\* The slots have returned: incoming_messages.remove(cm_event->window).
EndOfSlot(r) ==
  LET w == emitting[r][Len(emitting[r])] IN
  /\ emitting[r] # <<>>
  /\ emitting' = [emitting EXCEPT ![r] = SubSeq(@, 1, Len(@) - 1)]
  /\ incoming' = [incoming EXCEPT ![r] = Removed(@, w)]
  /\ UNCHANGED <<sending, fresh, phase, queue, begun, log, got>>

-----------------------------------------------------------------------------

Next ==
  \/ \E s \in Senders :
       \/ \E msg \in Messages : BroadcastMessage(s, msg) \/ BroadcastMessageX(s, msg)
       \/ SendFragment(s)
       \/ Restart(s)
  \/ \E r \in Receivers : Start(r) \/ Stop(r) \/ Dispatch(r) \/ EndOfSlot(r)

Spec == Init /\ [][Next]_vars

\* The event loops of the receivers run and their slots return.
FairSpec == /\ Spec
            /\ \A r \in Receivers : WF_vars(Dispatch(r)) /\ WF_vars(EndOfSlot(r))

TypeOK ==
  /\ \A s \in Senders : sending[s] = Idle \/ sending[s].msg \in Messages
  /\ \A r \in Receivers : /\ DOMAIN incoming[r] \subseteq Senders \X Nat
                          /\ \A w \in DOMAIN incoming[r] : incoming[r][w] \in Seq(Nat)
  /\ fresh \in [Senders -> 0..MaxSent]
  /\ phase \in [Receivers -> {"new", "on", "off"}]
  /\ \A r \in {x \in Receivers : phase[x] # "on"} :
       queue[r] = <<>> /\ DOMAIN incoming[r] = {}
  /\ begun \in 0..MaxSent

-----------------------------------------------------------------------------

Text == {CString(m) : m \in Messages}

Broadcast == INSTANCE MessageBroadcast
               WITH Text <- Text, Receivers <- Receivers, log <- log, got <- got

\* The fragments implement atomic broadcast: whatever interleaves, a receiver
\* emits gotMessage() for whole messages, in the order in which their last
\* fragments were sent, none of them twice and none that it heard only part of.
BroadcastIsAtomic == Broadcast!Spec

\* Every message that was sent completely is eventually given to every
\* receiver that listened from its beginning and does not go away: as there
\* are MaxSent broadcasts at most, in the end nothing is outstanding.
EverythingDelivered ==
  \A r \in Receivers :
    <>[](phase[r] = "off" \/ Len(got[r]) >= Len(Broadcast!AddressedTo(log, r)))
=============================================================================
