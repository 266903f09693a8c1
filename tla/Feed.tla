-------------------------------- MODULE Feed --------------------------------
(***************************************************************************)
(* event/feed.go: one-to-many delivery of events over buffered channels,   *)
(* while subscribers come, read at their own pace, and leave.              *)
(*                                                                         *)
(* The select cases are kept as the slices they are: sendCases is the      *)
(* first size slots of backing, and after an unsubscription the cases of   *)
(* the Send in progress are a part of backing too, stale slots included.   *)
(* The removeSub case, always at index 0, is left out of both.  A case is  *)
(* its channel and its Send field, kept in values.                         *)
(*                                                                         *)
(* The calls of Send that wait for sendLock have done nothing yet and are  *)
(* left out, and so are values of another type, on which Send panics.      *)
(***************************************************************************)
EXTENDS Integers, Sequences, SequencesExt

CONSTANTS
  Channel,    \* the channels of the subscribers, each subscribed once
  Canceling,  \* those whose subscriber may call Unsubscribe
  Capacity,   \* the buffer of a channel
  MaxSends,   \* bound: the number of calls of Send
  Timer       \* the case of the timer

ASSUME FeedAssumption ==
  Canceling \subseteq Channel /\ Capacity \in Nat \ {0} /\ MaxSends \in Nat /\ Timer \notin Channel

VARIABLES
  inbox,     \* subscribed channels that no Send has seen
  backing,   \* the array under sendCases
  values,    \* the Send fields of the cases in backing, 0 for none
  size,      \* the length of sendCases
  send,      \* the call of Send that holds sendLock
  sub,       \* how far each subscription is
  buffer,    \* the number of values waiting in each channel
  got,       \* the values put into each channel so far
  panicked   \* whether a slice index was out of range

vars == <<inbox, backing, values, size, send, sub, buffer, got, panicked>>

sendCases == SubSeq(backing, 1, size)

-----------------------------------------------------------------------------
(* Slices.                                                                 *)

\* The index of a channel in a sequence of cases, 0 if there is none.
find(cases, c) == SelectInSeq(cases, LAMBDA x : x = c)

\* A slice without the cases of other ones, removed one after the other.
removeAll(list, pending) ==
  LET left[i \in 0..Len(pending)] == IF i = 0 THEN list ELSE RemoveFirst(left[i - 1], pending[i])
  IN  left[Len(pending)]

\* delete shifts the array to the left; its last slot keeps its content.
delete(array, index, length) ==
  [i \in DOMAIN array |-> IF i \in index..length - 1 THEN array[i + 1] ELSE array[i]]

\* deactivate swaps a case to the end of the slice, which then loses it.
Swap(array, i, j) == [array EXCEPT ![i] = array[j], ![j] = array[i]]

\* The active cases of the Send in progress, and their Send fields: its own copy
\* was made with the value set.
cases == SubSeq(IF send.aliased THEN backing ELSE send.own, 1, send.active)
field(i) == IF send.aliased THEN values[i] ELSE send.value

\* Send goes on with the fast path from case next, without case i.
Deactivate(i, next) ==
  LET rest == [send EXCEPT !.pc = "try", !.next = next, !.active = @ - 1]
  IN  IF send.aliased
      THEN /\ backing' = Swap(backing, i, send.active)
           /\ values' = Swap(values, i, send.active)
           /\ send' = rest
      ELSE /\ send' = [rest EXCEPT !.own = Swap(@, i, send.active)]
           /\ UNCHANGED <<backing, values>>

\* At its end Send forgets the value in the cases of the feed.
forget(fields, length) == [i \in DOMAIN fields |-> IF i <= length THEN 0 ELSE fields[i]]

-----------------------------------------------------------------------------
(* Subscribers.                                                            *)

Subscribe(c) ==
  /\ sub[c] = "new"
  /\ inbox' = Append(inbox, c)
  /\ sub' = [sub EXCEPT ![c] = "subscribed"]
  /\ UNCHANGED <<backing, values, size, send, buffer, got, panicked>>

\* A subscriber takes a value out of its channel.
Receive(c) ==
  /\ buffer[c] > 0
  /\ buffer' = [buffer EXCEPT ![c] = @ - 1]
  /\ UNCHANGED <<inbox, backing, values, size, send, sub, got, panicked>>

\* Unsubscribe looks into the inbox first.
Unsubscribe(c) ==
  /\ c \in Canceling /\ sub[c] = "subscribed"
  /\ IF find(inbox, c) # 0
     THEN inbox' = RemoveFirst(inbox, c) /\ sub' = [sub EXCEPT ![c] = "canceled"]
     ELSE UNCHANGED inbox /\ sub' = [sub EXCEPT ![c] = "leaving"]
  /\ UNCHANGED <<backing, values, size, send, buffer, got, panicked>>

\* Then it takes sendLock if no Send is in progress.
RemoveIdle(c) ==
  /\ sub[c] = "leaving" /\ send.pc = "idle"
  /\ LET index == find(sendCases, c)
     IN  IF index # 0
         THEN /\ backing' = delete(backing, index, size)
              /\ values' = delete(values, index, size)
              /\ size' = size - 1
         ELSE UNCHANGED <<backing, values, size>>
  /\ sub' = [sub EXCEPT ![c] = "canceled"]
  /\ UNCHANGED <<inbox, send, buffer, got, panicked>>

\* Or it hands the channel to the Send in progress, which makes its cases a
\* part of sendCases.
RemoveDuring(c) ==
  /\ sub[c] = "leaving" /\ send.pc = "select"
  /\ sub' = [sub EXCEPT ![c] = "canceled"]
  /\ LET index == find(sendCases, c)
     IN  IF index = 0
         THEN panicked' = TRUE /\ UNCHANGED <<backing, values, size, send>>
         ELSE /\ backing' = delete(backing, index, size)
              /\ values' = delete(values, index, size)
              /\ size' = size - 1
              /\ send' = IF index <= send.active
                         THEN [send EXCEPT !.pc = "try", !.next = 1,
                                           !.aliased = TRUE, !.active = @ - 1]
                         ELSE [send EXCEPT !.pc = "try", !.next = 1]
              /\ UNCHANGED panicked
  /\ UNCHANGED <<inbox, buffer, got>>

-----------------------------------------------------------------------------
(* Send.                                                                   *)

\* Mutant of Send: the value is set on the new cases only.
SendToNewOnly ==
  /\ send.pc = "idle" /\ send.value < MaxSends
  /\ LET all == sendCases \o inbox
     IN  /\ backing' = all /\ size' = Len(all)
         /\ values' = [i \in 1..Len(all) |-> IF i > size THEN send.value + 1 ELSE values[i]]
         /\ send' = [pc |-> "try", value |-> send.value + 1, own |-> Append(all, Timer),
                     aliased |-> FALSE, active |-> Len(all) + 1, next |-> 1]
  /\ inbox' = <<>>
  /\ UNCHANGED <<sub, buffer, got, panicked>>

\* Mutant of Send: the cases have no timer.
SendUntimed ==
  /\ send.pc = "idle" /\ send.value < MaxSends
  /\ LET all == sendCases \o inbox
     IN  /\ backing' = all /\ size' = Len(all)
         /\ values' = [i \in 1..Len(all) |-> send.value + 1]
         /\ send' = [pc |-> "try", value |-> send.value + 1, own |-> all,
                     aliased |-> FALSE, active |-> Len(all), next |-> 1]
  /\ inbox' = <<>>
  /\ UNCHANGED <<sub, buffer, got, panicked>>

\* A call takes sendLock, and the inbox.
Send ==
  /\ send.pc = "idle" /\ send.value < MaxSends
  /\ LET all == sendCases \o inbox
     IN  /\ backing' = all /\ size' = Len(all)
         /\ values' = [i \in 1..Len(all) |-> send.value + 1]
         /\ send' = [pc |-> "try", value |-> send.value + 1, own |-> Append(all, Timer),
                     aliased |-> FALSE, active |-> Len(all) + 1, next |-> 1]
  /\ inbox' = <<>>
  /\ UNCHANGED <<sub, buffer, got, panicked>>

\* A value goes into channel c.
Deliver(c, value) ==
  /\ buffer[c] < Capacity
  /\ buffer' = [buffer EXCEPT ![c] = @ + 1]
  /\ got' = [got EXCEPT ![c] = Append(@, value)]

\* The fast path tries one case after the other.
TrySend ==
  /\ send.pc = "try" /\ send.next <= send.active
  /\ LET c == cases[send.next]
     IN  IF c # Timer /\ buffer[c] < Capacity
         THEN Deliver(c, send.value) /\ Deactivate(send.next, send.next)
         ELSE send' = [send EXCEPT !.next = @ + 1] /\ UNCHANGED <<backing, values, buffer, got>>
  /\ UNCHANGED <<inbox, size, sub, panicked>>

\* One case besides removeSub is left: that should be the timer.
FinishSend ==
  /\ send.pc = "try" /\ send.next > send.active
  /\ send' = [send EXCEPT !.pc = IF send.active = 1 THEN "idle" ELSE "select",
                          !.own = IF send.active = 1 THEN <<>> ELSE @]
  /\ values' = IF send.active = 1 THEN forget(values, size) ELSE values
  /\ UNCHANGED <<inbox, backing, size, sub, buffer, got, panicked>>

\* A channel that was full gets room while Send selects.
SelectSend(i) ==
  /\ send.pc = "select" /\ i \in 1..send.active /\ cases[i] # Timer
  /\ Deliver(cases[i], field(i)) /\ Deactivate(i, 1)
  /\ UNCHANGED <<inbox, size, sub, panicked>>

\* Mutant of Timeout: the pending channels stay.
TimeoutKeeps ==
  /\ send.pc = "select" /\ find(cases, Timer) # 0
  /\ send' = [send EXCEPT !.pc = "idle", !.own = <<>>]
  /\ UNCHANGED <<inbox, backing, values, size, sub, buffer, got, panicked>>

\* After feedTimeout the pending channels are dropped from the feed.
Timeout ==
  /\ send.pc = "select" /\ find(cases, Timer) # 0
  /\ LET kept == removeAll(sendCases, cases)
     IN  backing' = kept /\ values' = [i \in 1..Len(kept) |-> 0] /\ size' = Len(kept)
  /\ send' = [send EXCEPT !.pc = "idle", !.own = <<>>]
  /\ UNCHANGED <<inbox, sub, buffer, got, panicked>>

-----------------------------------------------------------------------------
(* The specification.                                                      *)

Init ==
  /\ inbox = <<>> /\ backing = <<>> /\ values = <<>> /\ size = 0
  /\ send = [pc |-> "idle", value |-> 0, own |-> <<>>, aliased |-> FALSE, active |-> 0, next |-> 1]
  /\ sub = [c \in Channel |-> "new"]
  /\ buffer = [c \in Channel |-> 0] /\ got = [c \in Channel |-> <<>>]
  /\ panicked = FALSE

SendStep == TrySend \/ FinishSend \/ \E i \in 1..send.active : SelectSend(i)

Next ==
  /\ ~panicked
  /\ \/ \E c \in Channel : Subscribe(c) \/ Receive(c) \/ Unsubscribe(c)
     \/ \E c \in Channel : RemoveIdle(c) \/ RemoveDuring(c)
     \/ Send \/ SendStep \/ Timeout

Spec == Init /\ [][Next]_vars

\* A sender goes on while it can, and the timer fires.
FairSpec == Spec /\ WF_vars(SendStep) /\ WF_vars(Timeout)

-----------------------------------------------------------------------------
(* Properties.                                                             *)

\* The fields keep their types, and cases never reach beyond their array.
TypeOK ==
  /\ inbox \in Seq(Channel) /\ backing \in Seq(Channel)
  /\ values \in Seq(0..MaxSends) /\ Len(values) = Len(backing)
  /\ size \in 0..Len(backing)
  /\ send \in [pc : {"idle", "try", "select"}, value : 0..MaxSends, own : Seq(Channel \cup {Timer}),
               aliased : BOOLEAN, active : Nat, next : Nat \ {0}]
  /\ send.pc # "idle" => send.active <= Len(IF send.aliased THEN backing ELSE send.own)
  /\ sub \in [Channel -> {"new", "subscribed", "leaving", "canceled"}]
  /\ buffer \in [Channel -> 0..Capacity] /\ got \in [Channel -> Seq(1..MaxSends)]
  /\ panicked \in BOOLEAN

\* No subscriber gets an older value after a newer one, whoever sends,
\* subscribes, times out or leaves meanwhile: also the cases that a Send takes
\* over from the feed when a subscriber leaves carry the value being sent.
Ordered == \A c \in Channel : \A i \in 2..Len(got[c]) : got[c][i - 1] <= got[c][i]

\* Nobody has called Unsubscribe on a channel yet that a Send had taken.
Undisturbed == \A c \in Channel : sub[c] # "leaving" /\ (sub[c] = "canceled" => got[c] = <<>>)

\* Until then, when no Send is in progress, a channel that is still in the feed
\* has got every value since its first one, each once; one that a timeout
\* dropped has got a contiguous part of them.
EveryValueOnce ==
  Undisturbed =>
    \A c \in Channel :
      /\ \A i \in 2..Len(got[c]) : got[c][i] = got[c][i - 1] + 1
      /\ send.pc = "idle" /\ Contains(sendCases, c) => got[c] # <<>> /\ Last(got[c]) = send.value

\* Until then a Send returns, even if nobody reads: the timer sees to that.
SendReturns == (send.pc # "idle" /\ Undisturbed) ~> (send.pc = "idle" \/ ~Undisturbed)

\* TestFeed_Send_Timeout: "Ensure feed skips subscription after timeout".  The
\* same while subscribers leave: a Send does not wait for ever.
BlockedSendReturns == send.pc # "idle" ~> send.pc = "idle" \/ panicked

\* "The Unsubscribe method cancels the sending of events": a channel whose
\* Unsubscribe has returned gets nothing more.
NothingAfterUnsubscribe ==
  [][\A c \in Channel : sub[c] = "canceled" => got'[c] = got[c]]_vars

\* "You must call Unsubscribe in all cases": it is always safe, also for a
\* channel that a timeout dropped.
UnsubscribeSafe == ~panicked

\* "Slow subscribers are not dropped": who has not left is in the feed.
SlowStay ==
  \A c \in Channel : sub[c] = "subscribed" => Contains(inbox, c) \/ Contains(sendCases, c)

=============================================================================
