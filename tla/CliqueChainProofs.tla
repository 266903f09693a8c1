-------------------------- MODULE CliqueChainProofs --------------------------
(***************************************************************************)
(* Proofs about CliqueChain, for every set of accounts, every genesis and  *)
(* every epoch length.                                                     *)
(*                                                                         *)
(* The inductive invariant is stated on a snapshot s and a block number n: *)
(* between the parts of applyHeader the snapshot already holds the vote    *)
(* and the signature of block n while its Number is still n - 1.           *)
(***************************************************************************)
EXTENDS CliqueChain, FiniteSetTheorems, TLAPS

VotesOn(s, a) == {v \in s.Votes : v.Address = a}

SignersOK(s, n) ==
  /\ IsFiniteSet(s.Signers)
  /\ s.Voters \subseteq s.Signers
  /\ \A a \in s.Signers : s.LastSigned[a] <= n
  /\ \A a, b \in s.Signers :
       s.LastSigned[a] = s.LastSigned[b] /\ s.LastSigned[a] > 0 => a = b

VotesOK(s, n) ==
  /\ IsFiniteSet(s.Votes)
  /\ \A v \in s.Votes : /\ v.Signer \in s.Voters
                        /\ v.Block <= n
                        /\ v.Address \notin s.Signers => v.Authorize
                        /\ v.Address \in s.Voters => ~v.Authorize
  /\ \A v, w \in s.Votes : w.Signer = v.Signer /\ w.Address = v.Address => w = v

\* Strengthens TallyExact: the tally counts every vote on an uncontested
\* account, and goes the only way a vote on it can go.
TallyOK(s) ==
  \A a \in Address \ Contested(s) :
    /\ s.Tally[a].Votes = Cardinality(VotesOn(s, a))
    /\ s.Tally[a].Votes > 0 => s.Tally[a].Authorize = (a \notin s.Signers)

Good(s, n) ==
  /\ s \in Snapshot
  /\ SignersOK(s, n)
  /\ VotesOK(s, n)
  /\ TallyOK(s)

-----------------------------------------------------------------------------
(* Finite sets of votes.                                                   *)

\* The votes on an account are finitely many.
LEMMA VotesOnFinite ==
  ASSUME NEW s, IsFiniteSet(s.Votes), NEW a
  PROVE  /\ IsFiniteSet(VotesOn(s, a))
         /\ Cardinality(VotesOn(s, a)) \in Nat
  BY FS_Subset, FS_CardinalityType DEF VotesOn

\* An epoch block empties the votes and the tallies together, so that every
\* tally still counts the votes (the first statement of apply's loop).
LEMMA EpochResetGood ==
  ASSUME NEW s, NEW n \in Nat, Good(s, n)
  PROVE  /\ Good(EpochReset(s), n)
         /\ EpochReset(s).Number = s.Number
         /\ EpochReset(s).Signers = s.Signers
         /\ EpochReset(s).Voters = s.Voters
<1> DEFINE t == [s EXCEPT !.Votes = {}, !.Tally = NoTallies]
<1>1. /\ t \in Snapshot
      /\ t.Number = s.Number /\ t.Signers = s.Signers /\ t.Voters = s.Voters
      /\ t.LastSigned = s.LastSigned /\ t.Votes = {} /\ t.Tally = NoTallies
  BY Zenon DEF Good, Snapshot, NoTallies, NoTally, Tally
<1>3. SignersOK(t, n) /\ VotesOK(t, n)
  BY <1>1, FS_EmptySet DEF Good, SignersOK, VotesOK
<1>4. TallyOK(t)
  <2> SUFFICES ASSUME NEW a \in Address
               PROVE  t.Tally[a].Votes = 0 /\ Cardinality(VotesOn(t, a)) = 0
    BY DEF TallyOK
  <2>1. VotesOn(t, a) = {}
    BY <1>1 DEF VotesOn
  <2> QED BY <1>1, <2>1, FS_EmptySet DEF NoTallies, NoTally
<1> QED BY <1>1, <1>3, <1>4 DEF EpochReset, Good

\* Block n + 1 gives its signer a last block that nobody else has.
LEMMA SignedGood ==
  ASSUME NEW s, NEW n \in Nat, Good(s, n), NEW a \in s.Signers
  PROVE  LET t == [s EXCEPT !.LastSigned = [@ EXCEPT ![a] = n + 1]]
         IN  /\ Good(t, n + 1)
             /\ t.Number = s.Number /\ t.Signers = s.Signers /\ t.Voters = s.Voters
<1> DEFINE t == [s EXCEPT !.LastSigned = [@ EXCEPT ![a] = n + 1]]
<1>1. /\ t \in Snapshot
      /\ t.Number = s.Number /\ t.Signers = s.Signers /\ t.Voters = s.Voters
      /\ t.Votes = s.Votes /\ t.Tally = s.Tally
      /\ t.LastSigned = [s.LastSigned EXCEPT ![a] = n + 1]
  BY DEF Good, Snapshot
<1>2. \A b \in s.Signers : /\ s.LastSigned[b] \in Nat
                           /\ t.LastSigned[b] = IF b = a THEN n + 1 ELSE s.LastSigned[b]
  BY <1>1 DEF Good, Snapshot
<1>3. SignersOK(t, n + 1)
  BY <1>1, <1>2 DEF Good, SignersOK
<1>4. VotesOK(t, n + 1)
  BY <1>1 DEF Good, VotesOK, Snapshot, Vote
<1>5. TallyOK(t)
  BY <1>1 DEF Good, TallyOK, VotesOn, Contested
<1> QED BY <1>1, <1>3, <1>4, <1>5 DEF Good

-----------------------------------------------------------------------------
(* Taking votes back and casting them.                                     *)

\* Taking back the previous vote of a voter on the candidate keeps votes and
\* tallies in step, and leaves no vote of that voter on it.
LEMMA DiscardPreviousGood ==
  ASSUME NEW s, NEW n \in Nat, Good(s, n), NEW a \in s.Voters, NEW c \in Address
  PROVE  LET t == DiscardPrevious(s, a, c)
         IN  /\ Good(t, n)
             /\ t.Number = s.Number /\ t.Signers = s.Signers /\ t.Voters = s.Voters
             /\ t.LastSigned = s.LastSigned
             /\ \A v \in t.Votes : ~(v.Signer = a /\ v.Address = c)
<1> DEFINE prev == {v \in s.Votes : v.Signer = a /\ v.Address = c}
           vote == CHOOSE v \in prev : \A w \in prev : v.Block <= w.Block
           t == [s EXCEPT !.Votes = @ \ {vote},
                          !.Tally = uncast(@, vote.Address, vote.Authorize)]
<1>1. CASE prev = {}
  BY <1>1 DEF DiscardPrevious
<1>2. CASE prev # {}
  <2>1. \A v \in prev : v.Block \in Nat
    BY DEF Good, Snapshot, Vote
  <2>2. \A v, w \in prev : v = w
    BY DEF Good, VotesOK
  <2>3. \E v \in prev : \A w \in prev : v.Block <= w.Block
    BY <1>2, <2>1, <2>2
  <2>4. vote \in prev
    BY <2>3
  <2>5. vote \in s.Votes /\ vote \in Vote /\ vote.Signer = a /\ vote.Address = c
    BY <2>4 DEF Good, Snapshot
  <2> HIDE DEF vote
  <2>6. /\ s.Tally[c] \in Tally
        /\ uncastMany(s.Tally[c], vote.Authorize, 1) \in Tally
    BY <2>5 DEF Good, Snapshot, Tally, uncastMany, NoTally, Vote
  <2>7. /\ t \in Snapshot
        /\ t.Number = s.Number /\ t.Signers = s.Signers /\ t.Voters = s.Voters
        /\ t.LastSigned = s.LastSigned /\ t.Votes = s.Votes \ {vote}
        /\ t.Tally = [s.Tally EXCEPT ![c] = uncastMany(@, vote.Authorize, 1)]
    BY <2>5, <2>6, Zenon DEF Good, Snapshot, uncast
  <2>8. SignersOK(t, n)
    BY <2>7 DEF Good, SignersOK
  <2>9. VotesOK(t, n)
    BY <2>7, FS_RemoveElement DEF Good, VotesOK
  <2>10. TallyOK(t)
    <3> SUFFICES ASSUME NEW b \in Address \ Contested(s)
                 PROVE  /\ t.Tally[b].Votes = Cardinality(VotesOn(t, b))
                        /\ t.Tally[b].Votes > 0 => t.Tally[b].Authorize = (b \notin s.Signers)
      BY <2>7 DEF TallyOK, Contested
    <3>0. /\ s.Tally[b].Votes = Cardinality(VotesOn(s, b))
          /\ s.Tally[b].Votes > 0 => s.Tally[b].Authorize = (b \notin s.Signers)
      BY DEF Good, TallyOK
    <3>1. CASE b # c
      <4>1. t.Tally[b] = s.Tally[b] /\ VotesOn(t, b) = VotesOn(s, b)
        BY <2>5, <2>7, <3>1 DEF Good, Snapshot, VotesOn
      <4> QED BY <3>0, <4>1
    <3>2. CASE b = c
      <4>1. VotesOn(t, c) = VotesOn(s, c) \ {vote} /\ vote \in VotesOn(s, c)
        BY <2>5, <2>7 DEF VotesOn
      <4>2. /\ Cardinality(VotesOn(t, c)) = Cardinality(VotesOn(s, c)) - 1
            /\ Cardinality(VotesOn(s, c)) \in Nat /\ Cardinality(VotesOn(t, c)) \in Nat
        BY <4>1, VotesOnFinite, FS_RemoveElement, FS_CardinalityType DEF Good, VotesOK
      <4>3. s.Tally[c].Votes > 0
        BY <3>0, <3>2, <4>2
      <4>4. vote.Authorize = (c \notin s.Signers)
        BY <2>5, <3>2 DEF Good, VotesOK, SignersOK, Contested, Vote
      <4>5. s.Tally[c].Authorize = vote.Authorize
        BY <3>0, <3>2, <4>3, <4>4
      <4>6. t.Tally[c] = IF s.Tally[c].Votes > 1 THEN [s.Tally[c] EXCEPT !.Votes = @ - 1] ELSE NoTally
        BY <2>7, <4>5 DEF Good, Snapshot, uncastMany
      <4> QED BY <3>0, <3>2, <2>6, <4>2, <4>3, <4>6 DEF Tally, NoTally
    <3> QED BY <3>1, <3>2
  <2>11. \A v \in t.Votes : ~(v.Signer = a /\ v.Address = c)
    BY <2>2, <2>4, <2>7
  <2>12. DiscardPrevious(s, a, c) = t
    BY <1>2 DEF DiscardPrevious, vote
  <2> QED BY <2>7, <2>8, <2>9, <2>10, <2>11, <2>12 DEF Good
<1> QED BY <1>1, <1>2

\* A valid vote enters the list and its tally together.
LEMMA CastVoteGood ==
  ASSUME NEW s, Good(s, s.Number + 1), NEW h \in Header, h.signer \in s.Voters,
         \A v \in s.Votes : ~(v.Signer = h.signer /\ v.Address = h.candidate)
  PROVE  LET t == CastVote(s, h)
         IN  /\ Good(t, s.Number + 1)
             /\ t.Number = s.Number /\ t.Signers = s.Signers /\ t.Voters = s.Voters
             /\ t.LastSigned = s.LastSigned
<1> DEFINE c == h.candidate
           vote == [Signer |-> h.signer, Block |-> s.Number + 1,
                    Address |-> c, Authorize |-> h.authorize]
           t == [s EXCEPT !.Tally = cast(@, c, h.authorize),
                          !.Votes = @ \cup {vote}]
<1>0. s.Number \in Nat
  BY DEF Good, Snapshot
<1>1. CASE ~validVote(s, c, h.authorize, h.voterElection)
  BY <1>1 DEF CastVote
<1>2. CASE validVote(s, c, h.authorize, h.voterElection)
  <2>1. /\ vote \in Vote /\ vote \notin s.Votes
        /\ vote.Signer = h.signer /\ vote.Address = c /\ vote.Authorize = h.authorize
        /\ vote.Block = s.Number + 1
    BY <1>0 DEF Vote, Header
  <2> HIDE DEF vote
  <2>2. /\ s.Tally[c] \in Tally
        /\ (IF s.Tally[c].Votes > 0 THEN [s.Tally[c] EXCEPT !.Votes = @ + 1]
                                   ELSE [Authorize |-> h.authorize, Votes |-> 1]) \in Tally
    BY DEF Good, Snapshot, Tally, Header
  <2>3. /\ t \in Snapshot
        /\ t.Number = s.Number /\ t.Signers = s.Signers /\ t.Voters = s.Voters
        /\ t.LastSigned = s.LastSigned /\ t.Votes = s.Votes \cup {vote}
        /\ t.Tally = [s.Tally EXCEPT ![c] =
              IF s.Tally[c].Votes > 0 THEN [s.Tally[c] EXCEPT !.Votes = @ + 1]
                                      ELSE [Authorize |-> h.authorize, Votes |-> 1]]
    BY <2>1, <2>2, Zenon DEF Good, Snapshot, cast
  <2>4. /\ c \notin s.Signers => h.authorize
        /\ c \in s.Voters => ~h.authorize
    BY <1>2 DEF validVote, Good, SignersOK, Header
  <2>5. SignersOK(t, s.Number + 1)
    BY <2>3 DEF Good, SignersOK
  <2>6. VotesOK(t, s.Number + 1)
    <3>1. IsFiniteSet(t.Votes)
      BY <2>3, FS_AddElement DEF Good, VotesOK
    <3>2. \A v \in t.Votes : /\ v.Signer \in t.Voters
                             /\ v.Block <= s.Number + 1
                             /\ v.Address \notin t.Signers => v.Authorize
                             /\ v.Address \in t.Voters => ~v.Authorize
      BY <1>0, <2>1, <2>3, <2>4 DEF Good, VotesOK
    <3>3. \A v, w \in t.Votes : w.Signer = v.Signer /\ w.Address = v.Address => w = v
      BY <2>1, <2>3 DEF Good, VotesOK
    <3> QED BY <3>1, <3>2, <3>3 DEF VotesOK
  <2>7. TallyOK(t)
    <3> SUFFICES ASSUME NEW b \in Address \ Contested(s)
                 PROVE  /\ t.Tally[b].Votes = Cardinality(VotesOn(t, b))
                        /\ t.Tally[b].Votes > 0 => t.Tally[b].Authorize = (b \notin s.Signers)
      BY <2>3, SMTT(60) DEF TallyOK, Contested
    <3>0. /\ s.Tally[b].Votes = Cardinality(VotesOn(s, b))
          /\ s.Tally[b].Votes > 0 => s.Tally[b].Authorize = (b \notin s.Signers)
      BY DEF Good, TallyOK
    <3>1. CASE b # c
      <4>1. t.Tally[b] = s.Tally[b] /\ VotesOn(t, b) = VotesOn(s, b)
        BY <2>1, <2>3, <3>1 DEF Good, Snapshot, VotesOn
      <4> QED BY <3>0, <4>1
    <3>2. CASE b = c
      <4>1. VotesOn(t, c) = VotesOn(s, c) \cup {vote} /\ vote \notin VotesOn(s, c)
        BY <2>1, <2>3 DEF VotesOn
      <4>2. /\ Cardinality(VotesOn(t, c)) = Cardinality(VotesOn(s, c)) + 1
            /\ Cardinality(VotesOn(s, c)) \in Nat
        BY <4>1, VotesOnFinite, FS_AddElement DEF Good, VotesOK
      <4>3. h.authorize = (c \notin s.Signers)
        BY <2>4, <3>2 DEF Contested, Header, Good, SignersOK
      <4>4. t.Tally[c] = IF s.Tally[c].Votes > 0 THEN [s.Tally[c] EXCEPT !.Votes = @ + 1]
                                               ELSE [Authorize |-> h.authorize, Votes |-> 1]
        BY <2>3 DEF Good, Snapshot, Header
      <4> QED BY <3>0, <3>2, <2>2, <4>2, <4>3, <4>4, SMTT(60) DEF Tally
    <3> QED BY <3>1, <3>2
  <2>8. CastVote(s, h) = t
    BY <1>2 DEF CastVote, vote
  <2> QED BY <2>3, <2>5, <2>6, <2>7, <2>8 DEF Good
<1> QED BY <1>1, <1>2

-----------------------------------------------------------------------------
(* The status change of a passed vote.                                     *)

\* Everything Good says, but for the votes on the account whose status changes.
GoodBut(s, n, c) ==
  /\ s \in Snapshot
  /\ SignersOK(s, n)
  /\ IsFiniteSet(s.Votes)
  /\ \A v \in s.Votes : v.Address # c =>
       /\ v.Signer \in s.Voters
       /\ v.Block <= n
       /\ v.Address \notin s.Signers => v.Authorize
       /\ v.Address \in s.Voters => ~v.Authorize
  /\ \A v, w \in s.Votes : w.Signer = v.Signer /\ w.Address = v.Address => w = v
  /\ \A a \in Address \ (Contested(s) \cup {c}) :
       /\ s.Tally[a].Votes = Cardinality(VotesOn(s, a))
       /\ s.Tally[a].Votes > 0 => s.Tally[a].Authorize = (a \notin s.Signers)

\* The final discard of apply restores the rest.
LEMMA DiscardVotesOnGood ==
  ASSUME NEW s, NEW n \in Nat, NEW c \in Address, GoodBut(s, n, c)
  PROVE  LET t == DiscardVotesOn(s, c)
         IN  /\ Good(t, n)
             /\ t.Number = s.Number /\ t.Signers = s.Signers /\ t.Voters = s.Voters
<1> DEFINE t == DiscardVotesOn(s, c)
<1>1. /\ t \in Snapshot
      /\ t.Number = s.Number /\ t.Signers = s.Signers /\ t.Voters = s.Voters
      /\ t.LastSigned = s.LastSigned /\ t.Votes = {v \in s.Votes : v.Address # c}
      /\ t.Tally = [s.Tally EXCEPT ![c] = NoTally]
  BY Zenon DEF GoodBut, DiscardVotesOn, Snapshot, NoTally, Tally
<1> HIDE DEF t
<1>2. SignersOK(t, n)
  BY <1>1 DEF GoodBut, SignersOK
<1>3. VotesOK(t, n)
  <2>1. IsFiniteSet(t.Votes)
    BY <1>1, FS_Subset DEF GoodBut
  <2> QED BY <1>1, <2>1 DEF GoodBut, VotesOK
<1>4. TallyOK(t)
  <2> SUFFICES ASSUME NEW b \in Address \ Contested(s)
               PROVE  /\ t.Tally[b].Votes = Cardinality(VotesOn(t, b))
                      /\ t.Tally[b].Votes > 0 => t.Tally[b].Authorize = (b \notin s.Signers)
    BY <1>1 DEF TallyOK, Contested
  <2>1. CASE b = c
    <3>1. VotesOn(t, c) = {} /\ t.Tally[c] = NoTally
      BY <1>1 DEF VotesOn, GoodBut, Snapshot
    <3> QED BY <2>1, <3>1, FS_EmptySet DEF NoTally
  <2>2. CASE b # c
    <3>1. VotesOn(t, b) = VotesOn(s, b) /\ t.Tally[b] = s.Tally[b]
      BY <1>1, <2>2 DEF VotesOn, GoodBut, Snapshot
    <3> QED BY <2>2, <3>1 DEF GoodBut
  <2> QED BY <2>1, <2>2
<1> QED BY <1>1, <1>2, <1>3, <1>4 DEF Good, t

\* Taking back all the votes of a removed voter lowers each tally by the votes
\* that leave the list.
LEMMA DiscardVotesOfGood ==
  ASSUME NEW s, NEW n \in Nat, NEW c \in Address,
         s \in Snapshot, SignersOK(s, n), IsFiniteSet(s.Votes),
         \A v \in s.Votes : /\ v.Signer \in s.Voters \cup {c}
                            /\ v.Block <= n
                            /\ v.Address \notin s.Signers => v.Authorize
                            /\ v.Address \in s.Voters => ~v.Authorize,
         \A v, w \in s.Votes : w.Signer = v.Signer /\ w.Address = v.Address => w = v,
         \A a \in Address \ (Contested(s) \cup {c}) :
           /\ s.Tally[a].Votes = Cardinality(VotesOn(s, a))
           /\ s.Tally[a].Votes > 0 => s.Tally[a].Authorize = (a \notin s.Signers),
         c \notin s.Voters
  PROVE  LET t == DiscardVotesOf(s, c)
         IN  /\ GoodBut(t, n, c)
             /\ t.Number = s.Number /\ t.Signers = s.Signers /\ t.Voters = s.Voters
<1> DEFINE by(a, d) == {v \in s.Votes : /\ v.Signer = c
                                        /\ v.Address = a
                                        /\ v.Authorize = d}
           k(a) == Cardinality(by(a, s.Tally[a].Authorize))
           tally == [a \in Address |-> uncastMany(s.Tally[a], s.Tally[a].Authorize, k(a))]
           t == DiscardVotesOf(s, c)
<1>1. \A a \in Address : /\ IsFiniteSet(by(a, s.Tally[a].Authorize))
                         /\ k(a) \in Nat
                         /\ s.Tally[a] \in Tally
  BY FS_Subset, FS_CardinalityType DEF Snapshot
<1> HIDE DEF k
<1>2. tally \in [Address -> Tally]
  <2> SUFFICES ASSUME NEW a \in Address
               PROVE  uncastMany(s.Tally[a], s.Tally[a].Authorize, k(a)) \in Tally
    OBVIOUS
  <2>1. k(a) \in Nat /\ s.Tally[a] \in Tally
    BY <1>1, Zenon
  <2> QED BY <2>1 DEF uncastMany, Tally, NoTally
<1>3. t = [s EXCEPT !.Votes = {v \in @ : v.Signer # c}, !.Tally = tally]
  BY DEF DiscardVotesOf, k
<1> HIDE DEF tally, t
<1>4. /\ t \in Snapshot
      /\ t.Number = s.Number /\ t.Signers = s.Signers /\ t.Voters = s.Voters
      /\ t.LastSigned = s.LastSigned /\ t.Votes = {v \in s.Votes : v.Signer # c}
      /\ t.Tally = tally
  BY <1>2, <1>3, Zenon DEF Snapshot
<1>5. SignersOK(t, n) /\ IsFiniteSet(t.Votes)
  BY <1>4, FS_Subset DEF SignersOK
<1>6. \A v \in t.Votes : /\ v.Signer \in t.Voters
                         /\ v.Block <= n
                         /\ v.Address \notin t.Signers => v.Authorize
                         /\ v.Address \in t.Voters => ~v.Authorize
  BY <1>4
<1>7. ASSUME NEW a \in Address \ (Contested(s) \cup {c})
      PROVE  /\ t.Tally[a].Votes = Cardinality(VotesOn(t, a))
             /\ t.Tally[a].Votes > 0 => t.Tally[a].Authorize = (a \notin s.Signers)
  <2> DEFINE B == by(a, s.Tally[a].Authorize)
  <2>1. /\ IsFiniteSet(VotesOn(s, a)) /\ IsFiniteSet(VotesOn(t, a)) /\ IsFiniteSet(B)
        /\ Cardinality(VotesOn(s, a)) \in Nat
    BY <1>1, <1>5, VotesOnFinite
  <2>2. t.Tally[a] = uncastMany(s.Tally[a], s.Tally[a].Authorize, k(a))
    BY <1>4 DEF tally
  <2>3. CASE s.Tally[a].Votes = 0
    <3>1. VotesOn(s, a) = {}
      BY <2>1, <2>3, FS_EmptySet
    <3>2. B = {} /\ VotesOn(t, a) = {}
      BY <1>4, <3>1 DEF VotesOn
    <3>3. k(a) = 0
      BY <3>2, FS_EmptySet, Zenon DEF k
    <3> QED BY <2>2, <2>3, <3>2, <3>3, FS_EmptySet DEF uncastMany
  <2>4. CASE s.Tally[a].Votes > 0
    <3>1. s.Tally[a].Authorize = (a \notin s.Signers)
      BY <2>4
    <3>2. \A v \in VotesOn(s, a) : v.Authorize = s.Tally[a].Authorize
      <4>1. a \in s.Signers => a \in s.Voters
        BY DEF Contested
      <4> QED BY <3>1, <4>1 DEF VotesOn, Snapshot, Vote, SignersOK
    <3>3. B \subseteq VotesOn(s, a) /\ VotesOn(t, a) = VotesOn(s, a) \ B
      BY <1>4, <3>2 DEF VotesOn
    <3>4. \A v, w \in B : v = w
      OBVIOUS
    <3>5. CASE B = {}
      <4>1. k(a) = 0 /\ VotesOn(t, a) = VotesOn(s, a)
        BY <3>3, <3>5, FS_EmptySet, Zenon DEF k
      <4> QED BY <2>2, <4>1 DEF uncastMany
    <3>6. CASE B # {}
      <4>1. PICK x \in B : B = {x}
        BY <3>4, <3>6
      <4>2. k(a) = 1
        <5>1. k(a) = Cardinality(B)
          BY DEF k
        <5> HIDE DEF B
        <5> QED BY <4>1, <5>1, FS_Singleton, Zenon
      <4>3. /\ Cardinality(VotesOn(t, a)) = Cardinality(VotesOn(s, a)) - 1
        BY <2>1, <3>3, <4>1, FS_RemoveElement
      <4>4. s.Tally[a].Votes = Cardinality(VotesOn(s, a)) /\ s.Tally[a] \in Tally
        BY <1>1, Zenon
      <4> QED BY <2>1, <2>2, <2>4, <3>1, <4>2, <4>3, <4>4 DEF uncastMany, Tally, NoTally
    <3> QED BY <3>5, <3>6
  <2>5. s.Tally[a].Votes \in Nat
    BY <1>1, Zenon DEF Tally
  <2> QED BY <2>3, <2>4, <2>5
<1>8. \A v, w \in t.Votes : w.Signer = v.Signer /\ w.Address = v.Address => w = v
  BY <1>4
<1>9. Contested(t) = Contested(s)
  BY <1>4 DEF Contested
<1>10. GoodBut(t, n, c)
  BY <1>4, <1>5, <1>6, <1>7, <1>8, <1>9 DEF GoodBut
<1> QED BY <1>4, <1>10 DEF t

\* A passed vote moves the candidate by one rank and touches nobody else.
LEMMA ChangeStatusGood ==
  ASSUME NEW s, NEW n \in Nat, NEW c \in Address, Good(s, n), s.Voters # {}
  PROVE  LET t == ChangeStatus(s, c)
         IN  /\ GoodBut(t, n, c)
             /\ t.Number = s.Number
             /\ t.Signers # {}
             /\ \A a \in Address \ {c} : Status(t, a) = Status(s, a)
             /\ (c \in s.Signers) # (c \in t.Signers) => c \notin s.Voters \cup t.Voters
<1> USE DEF Status
<1>1. CASE s.Tally[c].Authorize /\ c \notin s.Signers
  <2> DEFINE t == [s EXCEPT !.Signers = @ \cup {c}, !.LastSigned = [@ EXCEPT ![c] = 0]]
  <2>1. /\ t \in Snapshot
        /\ t.Number = s.Number /\ t.Signers = s.Signers \cup {c} /\ t.Voters = s.Voters
        /\ t.LastSigned = [s.LastSigned EXCEPT ![c] = 0]
        /\ t.Votes = s.Votes /\ t.Tally = s.Tally
    BY Zenon DEF Good, Snapshot
  <2>2. ChangeStatus(s, c) = t
    BY <1>1 DEF ChangeStatus
  <2>3. SignersOK(t, n)
    <3>1. \A a \in t.Signers : /\ s.LastSigned[a] \in Nat
                               /\ t.LastSigned[a] = IF a = c THEN 0 ELSE s.LastSigned[a]
      BY <2>1 DEF Good, Snapshot
    <3>2. IsFiniteSet(t.Signers)
      BY <2>1, FS_AddElement DEF Good, SignersOK
    <3> QED BY <2>1, <3>1, <3>2 DEF Good, SignersOK
  <2>4. GoodBut(t, n, c)
    BY <2>1, <2>3 DEF Good, GoodBut, VotesOK, TallyOK, Contested, VotesOn
  <2> QED BY <1>1, <2>1, <2>2, <2>4 DEF Good, SignersOK
<1>2. CASE s.Tally[c].Authorize /\ c \in s.Signers
  <2> DEFINE t == [s EXCEPT !.Voters = @ \cup {c}]
  <2>1. /\ t \in Snapshot
        /\ t.Number = s.Number /\ t.Signers = s.Signers /\ t.Voters = s.Voters \cup {c}
        /\ t.LastSigned = s.LastSigned /\ t.Votes = s.Votes /\ t.Tally = s.Tally
    BY DEF Good, Snapshot
  <2>2. ChangeStatus(s, c) = t
    BY <1>2 DEF ChangeStatus
  <2>3. SignersOK(t, n)
    BY <1>2, <2>1 DEF Good, SignersOK
  <2>4. GoodBut(t, n, c)
    BY <2>1, <2>3 DEF Good, GoodBut, VotesOK, TallyOK, Contested, VotesOn
  <2> QED BY <1>2, <2>1, <2>2, <2>4
<1>3. CASE ~s.Tally[c].Authorize /\ c \notin s.Voters
  <2> DEFINE t == [s EXCEPT !.Signers = @ \ {c}, !.LastSigned = [@ EXCEPT ![c] = 0]]
  <2>1. /\ t \in Snapshot
        /\ t.Number = s.Number /\ t.Signers = s.Signers \ {c} /\ t.Voters = s.Voters
        /\ t.LastSigned = [s.LastSigned EXCEPT ![c] = 0]
        /\ t.Votes = s.Votes /\ t.Tally = s.Tally
    BY Zenon DEF Good, Snapshot
  <2>2. ChangeStatus(s, c) = t
    BY <1>3 DEF ChangeStatus
  <2>3. SignersOK(t, n)
    <3>1. \A a \in t.Signers : t.LastSigned[a] = s.LastSigned[a]
      BY <2>1 DEF Good, Snapshot
    <3>2. IsFiniteSet(t.Signers)
      BY <2>1, FS_RemoveElement DEF Good, SignersOK
    <3> QED BY <1>3, <2>1, <3>1, <3>2 DEF Good, SignersOK
  <2>4. GoodBut(t, n, c)
    BY <2>1, <2>3 DEF Good, GoodBut, VotesOK, TallyOK, Contested, VotesOn
  <2> QED BY <1>3, <2>1, <2>2, <2>3, <2>4 DEF SignersOK
<1>4. CASE ~s.Tally[c].Authorize /\ c \in s.Voters
  <2> DEFINE r == [s EXCEPT !.Voters = @ \ {c}]
  <2>1. /\ r \in Snapshot
        /\ r.Number = s.Number /\ r.Signers = s.Signers /\ r.Voters = s.Voters \ {c}
        /\ r.LastSigned = s.LastSigned /\ r.Votes = s.Votes /\ r.Tally = s.Tally
    BY DEF Good, Snapshot
  <2>2. ChangeStatus(s, c) = DiscardVotesOf(r, c)
    BY <1>4 DEF ChangeStatus
  <2> HIDE DEF r
  <2>3. SignersOK(r, n) /\ IsFiniteSet(r.Votes) /\ c \notin r.Voters
    BY <2>1 DEF Good, SignersOK, VotesOK
  <2>4. /\ \A v \in r.Votes : /\ v.Signer \in r.Voters \cup {c}
                              /\ v.Block <= n
                              /\ v.Address \notin r.Signers => v.Authorize
                              /\ v.Address \in r.Voters => ~v.Authorize
        /\ \A v, w \in r.Votes : w.Signer = v.Signer /\ w.Address = v.Address => w = v
    BY <2>1 DEF Good, VotesOK
  <2>5. \A a \in Address \ (Contested(r) \cup {c}) :
           /\ r.Tally[a].Votes = Cardinality(VotesOn(r, a))
           /\ r.Tally[a].Votes > 0 => r.Tally[a].Authorize = (a \notin r.Signers)
    BY <2>1 DEF Good, TallyOK, Contested, VotesOn
  <2>6. LET t == DiscardVotesOf(r, c)
        IN  /\ GoodBut(t, n, c)
            /\ t.Number = r.Number /\ t.Signers = r.Signers /\ t.Voters = r.Voters
    BY <2>1, <2>3, <2>4, <2>5, DiscardVotesOfGood, SMTT(60)
  <2> QED BY <1>4, <2>1, <2>2, <2>6 DEF Good, SignersOK
<1> QED BY <1>1, <1>2, <1>3, <1>4, Zenon

\* The same for the whole of what apply does when the tally is compared with
\* the majority.
LEMMA PassVoteGood ==
  ASSUME NEW s, NEW n \in Nat, NEW c \in Address, Good(s, n), s.Voters # {}
  PROVE  LET t == PassVote(s, c)
         IN  /\ Good(t, n)
             /\ t.Number = s.Number
             /\ t.Signers # {}
             /\ \A a \in Address \ {c} : Status(t, a) = Status(s, a)
             /\ (c \in s.Signers) # (c \in t.Signers) => c \notin s.Voters \cup t.Voters
<1>1. CASE s.Tally[c].Votes >= Majority(s)
  <2> DEFINE r == ChangeStatus(s, c)
  <2>1. /\ GoodBut(r, n, c)
        /\ r.Number = s.Number
        /\ r.Signers # {}
        /\ \A a \in Address \ {c} : Status(r, a) = Status(s, a)
        /\ (c \in s.Signers) # (c \in r.Signers) => c \notin s.Voters \cup r.Voters
    BY ChangeStatusGood
  <2> HIDE DEF r
  <2>2. LET t == DiscardVotesOn(r, c)
        IN  /\ Good(t, n)
            /\ t.Number = r.Number /\ t.Signers = r.Signers /\ t.Voters = r.Voters
    BY <2>1, DiscardVotesOnGood
  <2>3. PassVote(s, c) = DiscardVotesOn(r, c)
    BY <1>1 DEF PassVote, r
  <2> QED BY <2>1, <2>2, <2>3 DEF Status
<1>2. CASE ~(s.Tally[c].Votes >= Majority(s))
  BY <1>2, Zenon DEF PassVote, Good, SignersOK
<1> QED BY <1>1, <1>2

-----------------------------------------------------------------------------
(* A whole block, and the invariant.                                       *)

\* The snapshot once a voter's vote is counted, before it is compared with the
\* majority.
Counted(s, h) ==
  CastVote(DiscardPrevious([EpochReset(s) EXCEPT !.LastSigned = [@ EXCEPT ![h.signer] = s.Number + 1]],
                           h.signer, h.candidate), h)

\* It is good, and its votes on the candidate are pending ones of other voters
\* and the one in the header.
LEMMA CountedGood ==
  ASSUME NEW s, Good(s, s.Number), NEW h \in Header, h.signer \in s.Voters
  PROVE  LET t == Counted(s, h)
         IN  /\ Good(t, s.Number + 1)
             /\ t.Number = s.Number /\ t.Signers = s.Signers /\ t.Voters = s.Voters
             /\ \A v \in VotesOn(t, h.candidate) :
                  \/ v \in s.Votes /\ v.Signer # h.signer
                  \/ v.Signer = h.signer /\ v.Authorize = h.authorize
<1> DEFINE n == s.Number
           reset == EpochReset(s)
           signed == [reset EXCEPT !.LastSigned = [@ EXCEPT ![h.signer] = n + 1]]
           prev == DiscardPrevious(signed, h.signer, h.candidate)
           t == CastVote(prev, h)
<1>0. n \in Nat /\ n + 1 \in Nat /\ h.candidate \in Address /\ h.signer \in s.Signers
  BY DEF Good, Snapshot, Header, SignersOK
<1>1. /\ Good(reset, n) /\ reset.Number = n /\ reset.Signers = s.Signers /\ reset.Voters = s.Voters
      /\ reset.Votes \subseteq s.Votes
  BY <1>0, EpochResetGood, Zenon DEF EpochReset, Good, Snapshot
<1> HIDE DEF reset
<1>2. /\ Good(signed, n + 1) /\ signed.Number = n
      /\ signed.Signers = s.Signers /\ signed.Voters = s.Voters
      /\ signed.Votes \subseteq s.Votes
  BY <1>0, <1>1, SignedGood, Zenon DEF Good, Snapshot
<1> HIDE DEF signed
<1>3. /\ Good(prev, n + 1) /\ prev.Number = n
      /\ prev.Signers = s.Signers /\ prev.Voters = s.Voters
      /\ \A v \in prev.Votes : ~(v.Signer = h.signer /\ v.Address = h.candidate)
  BY <1>0, <1>2, DiscardPreviousGood
<1>4. prev.Votes \subseteq s.Votes
  BY <1>2 DEF DiscardPrevious, Good, Snapshot
<1> HIDE DEF prev
<1>5. /\ Good(t, n + 1) /\ t.Number = n /\ t.Signers = s.Signers /\ t.Voters = s.Voters
  BY <1>3, CastVoteGood
<1>6. ASSUME NEW v \in VotesOn(t, h.candidate)
      PROVE  \/ v \in s.Votes /\ v.Signer # h.signer
             \/ v.Signer = h.signer /\ v.Authorize = h.authorize
  BY <1>3, <1>4 DEF CastVote, VotesOn, Good, Snapshot
<1>7. Counted(s, h) = t
  BY DEF Counted, reset, signed, prev
<1> QED BY <1>5, <1>6, <1>7

\* Applying an accepted header preserves the invariant; only the status of
\* the account it votes on changes, and only if its signer is a voter.
LEMMA ApplyGood ==
  ASSUME NEW s, Good(s, s.Number), NEW h \in Header, h.signer \in s.Signers
  PROVE  LET t == applyHeader(s, h)
         IN  /\ Good(t, t.Number)
             /\ t.Number = s.Number + 1
             /\ t.Signers # {}
             /\ \A a \in Address : Status(t, a) # Status(s, a) =>
                  /\ a = h.candidate
                  /\ h.signer \in s.Voters
                  /\ (a \in s.Signers) = (a \in t.Signers) \/ a \notin s.Voters \cup t.Voters
<1> DEFINE n == s.Number
           reset == EpochReset(s)
           signed == [reset EXCEPT !.LastSigned = [@ EXCEPT ![h.signer] = n + 1]]
           cst == Counted(s, h)
           pass == PassVote(cst, h.candidate)
           voted == IF h.signer \in s.Voters THEN pass ELSE signed
           t == [voted EXCEPT !.Number = @ + 1]
<1>0. n \in Nat /\ n + 1 \in Nat /\ h.candidate \in Address
  BY DEF Good, Snapshot, Header
<1>1. Good(reset, n) /\ reset.Number = n /\ reset.Signers = s.Signers /\ reset.Voters = s.Voters
  BY <1>0, EpochResetGood
<1> HIDE DEF reset
<1>2. /\ Good(signed, n + 1) /\ signed.Number = n
      /\ signed.Signers = s.Signers /\ signed.Voters = s.Voters
  BY <1>0, <1>1, SignedGood
<1> HIDE DEF signed
<1>3. /\ Good(voted, n + 1) /\ voted.Number = n /\ voted.Signers # {}
      /\ \A a \in Address : Status(voted, a) # Status(s, a) =>
           /\ a = h.candidate
           /\ h.signer \in s.Voters
           /\ (a \in s.Signers) = (a \in voted.Signers) \/ a \notin s.Voters \cup voted.Voters
  <2>1. CASE h.signer \notin s.Voters
    BY <1>2, <2>1 DEF Status
  <2>2. CASE h.signer \in s.Voters
    <3>1. /\ Good(cst, n + 1) /\ cst.Number = n
          /\ cst.Signers = s.Signers /\ cst.Voters = s.Voters
      BY <2>2, CountedGood
    <3> HIDE DEF cst
    <3>2. /\ Good(pass, n + 1) /\ pass.Number = n /\ pass.Signers # {}
          /\ \A a \in Address \ {h.candidate} : Status(pass, a) = Status(cst, a)
          /\ (h.candidate \in cst.Signers) # (h.candidate \in pass.Signers) =>
               h.candidate \notin cst.Voters \cup pass.Voters
      BY <1>0, <2>2, <3>1, PassVoteGood
    <3> HIDE DEF pass
    <3> QED BY <2>2, <3>1, <3>2 DEF Status
  <2> QED BY <2>1, <2>2
<1> HIDE DEF voted
<1>4. /\ t \in Snapshot /\ t.Number = n + 1 /\ t.Signers = voted.Signers
      /\ t.Voters = voted.Voters /\ t.LastSigned = voted.LastSigned
      /\ t.Votes = voted.Votes /\ t.Tally = voted.Tally
  BY <1>0, <1>3 DEF Good, Snapshot
<1>5. applyHeader(s, h) = t
  BY DEF applyHeader, reset, signed, voted, pass, cst, Counted
<1> HIDE DEF t
<1>6. Good(t, n + 1)
  BY <1>3, <1>4, SMTT(60) DEF Good, SignersOK, VotesOK, TallyOK, Contested, VotesOn
<1> QED BY <1>3, <1>4, <1>5, <1>6 DEF Status

\* The inductive invariant of the chain.
Inv ==
  /\ Good(snap, snap.Number)
  /\ snap.Signers # {}
  /\ head \in Header

\* The difficulty of a signer is a number.
LEMMA DifficultyNat ==
  ASSUME NEW s, IsFiniteSet(s.Signers), NEW a
  PROVE  /\ IsFiniteSet(LowerPriority(s, a))
         /\ Cardinality(LowerPriority(s, a)) \in Nat
         /\ CalcDifficulty(s, a) \in Nat
<1>1. LowerPriority(s, a) \subseteq s.Signers
  BY DEF LowerPriority
<1>2. IsFiniteSet(LowerPriority(s, a)) /\ Cardinality(LowerPriority(s, a)) \in Nat
  BY <1>1, FS_Subset, FS_CardinalityType
<1> QED BY <1>2 DEF CalcDifficulty

\* What a step does, in the terms of ApplyGood.
LEMMA AcceptHeader ==
  ASSUME Inv, NEW a \in Address, NEW b \in Ballot, Accept(a, b)
  PROVE  /\ head' \in Header
         /\ head'.signer \in snap.Signers
         /\ snap' = applyHeader(snap, head')
<1>1. CalcDifficulty(snap, a) \in Nat
  BY DifficultyNat DEF Inv, Good, SignersOK
<1>2. NewHeader(a, CalcDifficulty(snap, a), b) \in Header
  BY <1>1, AddressAssumption, BoundsAssumption, Zenon DEF NewHeader, Header, Ballot, Lists
<1> QED BY <1>2 DEF Accept, VerifyHeader, verifySeal, MaySign, NewHeader

\* Inv is inductive.
LEMMA Invariance == Spec => []Inv
<1>1. Init => Inv
  <2> SUFFICES ASSUME Init PROVE Inv
    OBVIOUS
  <2>1. /\ snap \in Snapshot /\ snap.Number = 0 /\ snap.Signers = GenesisSigners
        /\ snap.Voters = GenesisVoters /\ snap.Votes = {} /\ snap.Tally = NoTallies
        /\ snap.LastSigned = [a \in Address |-> 0]
    BY AddressAssumption, GenesisAssumption
       DEF Init, newGenesisSnapshot, Snapshot, NoTallies, NoTally, Tally
  <2>2. SignersOK(snap, 0) /\ VotesOK(snap, 0) /\ snap.Signers # {}
    BY <2>1, GenesisAssumption, FS_EmptySet DEF SignersOK, VotesOK
  <2>3. TallyOK(snap)
    <3> SUFFICES ASSUME NEW a \in Address
                 PROVE  snap.Tally[a].Votes = 0 /\ Cardinality(VotesOn(snap, a)) = 0
      BY DEF TallyOK
    <3>1. VotesOn(snap, a) = {}
      BY <2>1 DEF VotesOn
    <3> QED BY <2>1, <3>1, FS_EmptySet DEF NoTallies, NoTally
  <2>4. head \in Header
    BY AddressAssumption DEF Init, NewHeader, NoBallot, Header, Lists
  <2> QED BY <2>1, <2>2, <2>3, <2>4 DEF Inv, Good
<1>2. Inv /\ [Next]_vars => Inv'
  <2> SUFFICES ASSUME Inv, [Next]_vars PROVE Inv'
    OBVIOUS
  <2>1. ASSUME NEW a \in Address, NEW b \in Ballot, Accept(a, b) PROVE Inv'
    <3>1. /\ head' \in Header /\ head'.signer \in snap.Signers
          /\ snap' = applyHeader(snap, head')
      BY <2>1, AcceptHeader
    <3> QED BY <3>1, ApplyGood DEF Inv
  <2>2. CASE UNCHANGED vars
    BY <2>2 DEF Inv, vars, Good, SignersOK, VotesOK, TallyOK, Contested, VotesOn
  <2> QED BY <2>1, <2>2 DEF Next
<1> QED BY <1>1, <1>2, PTL DEF Spec

\* The snapshot and the last header always have their declared types.
THEOREM TypeCorrect == Spec => []TypeOK
<1>1. Inv => TypeOK
  BY DEF Inv, Good, TypeOK
<1> QED BY <1>1, Invariance, PTL

\* Every voter is a signer, and there is always a signer.
THEOREM VotersAlwaysSigners == Spec => []VotersAreSigners
<1>1. Inv => VotersAreSigners
  BY DEF Inv, Good, SignersOK, VotersAreSigners
<1> QED BY <1>1, Invariance, PTL

\* Pending votes are by current voters, one for each account, and meaningful.
THEOREM VotesAlwaysMeaningful == Spec => []PendingVotesMeaningful
<1>1. Inv => PendingVotesMeaningful
  BY DEF Inv, Good, VotesOK, PendingVotesMeaningful
<1> QED BY <1>1, Invariance, PTL

\* Last signed blocks are distinct and not in the future.
THEOREM LastSignedAlwaysDistinct == Spec => []LastSignedDistinct
<1>1. Inv => LastSignedDistinct
  BY DEF Inv, Good, SignersOK, LastSignedDistinct
<1> QED BY <1>1, Invariance, PTL

\* The cached tally of an uncontested account counts its pending votes.
THEOREM TallyAlwaysExact == Spec => []TallyExact
<1>1. Inv => TallyExact
  <2> SUFFICES ASSUME Inv, NEW a \in Address \ Contested(snap)
               PROVE  snap.Tally[a].Votes = Cardinality(Supporters(snap, a))
    BY DEF TallyExact
  <2>1. /\ snap.Tally[a].Votes = Cardinality(VotesOn(snap, a))
        /\ snap.Tally[a].Votes > 0 => snap.Tally[a].Authorize = (a \notin snap.Signers)
        /\ snap.Tally[a].Votes \in Nat
    BY DEF Inv, Good, TallyOK, Snapshot, Tally
  <2>2. CASE snap.Tally[a].Votes = 0
    <3>1. VotesOn(snap, a) = {}
      BY <2>1, <2>2, VotesOnFinite, FS_EmptySet, Zenon DEF Inv, Good, VotesOK
    <3>2. Supporters(snap, a) = {}
      BY <3>1 DEF VotesOn, Supporters
    <3> QED BY <2>2, <3>2, FS_EmptySet
  <2>3. CASE snap.Tally[a].Votes > 0
    <3>1. \A v \in VotesOn(snap, a) : v.Authorize = snap.Tally[a].Authorize
      <4>1. a \in snap.Signers => a \in snap.Voters
        BY DEF Contested
      <4> QED BY <2>1, <2>3, <4>1
              DEF VotesOn, Inv, Good, VotesOK, SignersOK, Snapshot, Vote
    <3>2. Supporters(snap, a) = VotesOn(snap, a)
      BY <3>1 DEF VotesOn, Supporters
    <3> QED BY <2>1, <3>2
  <2> QED BY <2>1, <2>2, <2>3
<1> QED BY <1>1, Invariance, PTL

\* No block changes the status of an account it does not vote on.
THEOREM NoCascade == Spec => OnlyCandidateChanges
<1> DEFINE A == \A a \in Address :
       Status(snap', a) # Status(snap, a) =>
         /\ a = head'.candidate
         /\ head'.signer \in snap.Voters
         /\ (a \in snap.Signers) = (a \in snap'.Signers) \/ a \notin snap.Voters \cup snap'.Voters
<1>1. Inv /\ [Next]_vars => [A]_vars
  <2> SUFFICES ASSUME Inv, NEW a \in Address, NEW b \in Ballot, Accept(a, b) PROVE A
    BY DEF Next
  <2>1. /\ head' \in Header /\ head'.signer \in snap.Signers
        /\ snap' = applyHeader(snap, head')
    BY AcceptHeader
  <2> QED BY <2>1, ApplyGood DEF Inv
<1> QED BY <1>1, Invariance, PTL DEF Spec, OnlyCandidateChanges

\* An uncontested account changes status only if more than half of the voters,
\* each counted once, want that change: its tally has one vote of each of them.
THEOREM OnlyMajorities == Spec => MajorityDecides
<1> DEFINE A == \A a \in Address \ Contested(snap) :
       Status(snap', a) # Status(snap, a) =>
         2 * Cardinality(Wanting(snap, head', a, Promoted(snap, snap', a)))
           > Cardinality(snap.Voters)
<1>1. Inv /\ [Next]_vars => [A]_vars
  <2> SUFFICES ASSUME Inv, NEW x \in Address, NEW b \in Ballot, Accept(x, b),
                      NEW a \in Address \ Contested(snap), Status(snap', a) # Status(snap, a)
               PROVE  2 * Cardinality(Wanting(snap, head', a, Promoted(snap, snap', a)))
                        > Cardinality(snap.Voters)
    BY DEF Next
  <2> DEFINE h == head'
             t == Counted(snap, h)
             W == Wanting(snap, h, a, Promoted(snap, snap', a))
             V == VotesOn(t, a)
  <2>1. h \in Header /\ h.signer \in snap.Signers /\ snap' = applyHeader(snap, h)
    BY AcceptHeader
  <2>2. Good(snap, snap.Number)
    BY DEF Inv
  <2>3. a = h.candidate /\ h.signer \in snap.Voters
    BY <2>1, <2>2, ApplyGood
  <2>4. /\ Good(t, snap.Number + 1) /\ t.Number = snap.Number
        /\ t.Signers = snap.Signers /\ t.Voters = snap.Voters
        /\ \A v \in V : \/ v \in snap.Votes /\ v.Signer # h.signer
                        \/ v.Signer = h.signer /\ v.Authorize = h.authorize
    BY <2>1, <2>2, <2>3, CountedGood
  <2>5. snap' = [PassVote(t, a) EXCEPT !.Number = @ + 1]
    BY <2>1, <2>3 DEF applyHeader, Counted
  <2> HIDE DEF h, t
  <2>6. t.Tally[a].Votes >= Majority(t)
    BY <2>4, <2>5 DEF PassVote, Status, Good, Snapshot
  <2>7. t.Tally[a].Votes = Cardinality(V)
    BY <2>4 DEF Good, TallyOK, Contested
  <2>8. Promoted(snap, snap', a) = (a \notin snap.Signers)
    <3>1. a \in snap.Signers => a \in snap.Voters
      BY DEF Contested
    <3>2. snap.Voters \subseteq snap.Signers
      BY <2>2 DEF Good, SignersOK
    <3>3. ~(a \in snap.Signers <=> a \in snap'.Signers) \/ ~(a \in snap.Voters <=> a \in snap'.Voters)
      BY DEF Status
    <3>4. CASE a \in snap.Signers
      BY <3>1, <3>4, Zenon DEF Promoted
    <3>5. CASE a \notin snap.Signers
      <4>1. a \in snap'.Signers \/ a \in snap'.Voters
        BY <3>2, <3>3, <3>5
      <4>2. Promoted(snap, snap', a)
        BY <3>2, <3>5, <4>1 DEF Promoted
      <4> QED BY <3>5, <4>2, Zenon DEF Promoted
    <3> QED BY <3>4, <3>5
  <2>9. \A v \in V : v.Address = a /\ v.Authorize = Promoted(snap, snap', a)
    <3>1. a \in snap.Signers => a \in snap.Voters
      BY DEF Contested
    <3>2. \A v \in V : /\ v.Address = a /\ v.Authorize \in BOOLEAN
                       /\ a \notin snap.Signers => v.Authorize
                       /\ a \in snap.Voters => ~v.Authorize
      BY <2>4 DEF VotesOn, Good, VotesOK, Snapshot, Vote
    <3> QED BY <2>8, <3>1, <3>2
  <2>10. \A v \in V : v.Signer \in W
    BY <2>4, <2>9 DEF Wanting
  <2>11. W \subseteq snap.Voters
    BY <2>2, <2>3 DEF Wanting, Good, VotesOK, h
  <2>12. /\ IsFiniteSet(snap.Voters) /\ Cardinality(snap.Voters) \in Nat
         /\ IsFiniteSet(W) /\ Cardinality(W) \in Nat
    BY <2>2, <2>11, FS_Subset, FS_CardinalityType DEF Good, SignersOK
  <2>13. \A v, w \in V : v.Signer = w.Signer => v = w
    BY <2>4 DEF VotesOn, Good, VotesOK
  <2> HIDE DEF W, V
  <2>14. [v \in V |-> v.Signer] \in Injection(V, W)
    BY <2>10, <2>13 DEF Injection, IsInjective
  <2>15. Cardinality(V) <= Cardinality(W) /\ IsFiniteSet(V)
    BY <2>12, <2>14, FS_Injection
  <2>16. Cardinality(V) \in Nat
    BY <2>15, FS_CardinalityType
  <2>17. Cardinality(V) >= Cardinality(snap.Voters) \div 2 + 1
    BY <2>4, <2>6, <2>7 DEF Majority
  <2>18. 2 * Cardinality(W) > Cardinality(snap.Voters)
    BY <2>12, <2>15, <2>16, <2>17
  <2> QED BY <2>18 DEF W, h
<1> QED BY <1>1, Invariance, PTL DEF Spec, MajorityDecides

-----------------------------------------------------------------------------
(* Who may sign.                                                           *)

\* The signers that signed after block m are at most the blocks after m.
LEMMA SignedAfter ==
  ASSUME NEW s, NEW m \in Nat, Good(s, s.Number), m <= s.Number
  PROVE  LET L == {a \in s.Signers : s.LastSigned[a] > m}
         IN  IsFiniteSet(L) /\ Cardinality(L) \in Nat /\ Cardinality(L) <= s.Number - m
<1> DEFINE L == {a \in s.Signers : s.LastSigned[a] > m}
           T == (m + 1)..s.Number
           f == [a \in L |-> s.LastSigned[a]]
<1>0. s.Number \in Nat
  BY DEF Good, Snapshot
<1>1. \A a \in L : s.LastSigned[a] \in T
  BY <1>0 DEF Good, SignersOK, Snapshot
<1>2. f \in Injection(L, T)
  BY <1>1 DEF Good, SignersOK, Snapshot, Injection, IsInjective
<1>3. IsFiniteSet(T) /\ Cardinality(T) = s.Number - m
  <2>1. m + 1 \in Int /\ s.Number \in Int
    BY <1>0
  <2>2. /\ IsFiniteSet(T)
        /\ Cardinality(T) = IF m + 1 > s.Number THEN 0 ELSE s.Number - (m + 1) + 1
    BY <2>1, FS_Interval, Zenon
  <2> HIDE DEF T
  <2> QED BY <1>0, <2>2
<1>4. Cardinality(L) <= Cardinality(T) /\ IsFiniteSet(L)
  BY <1>2, <1>3, FS_Injection
<1>5. Cardinality(L) \in Nat
  BY <1>4, FS_CardinalityType
<1> QED BY <1>3, <1>4, <1>5

\* The difficulty rule implies the recency rule.
THEOREM RecencyFollows == Spec => []DifficultyImpliesRecency
<1>1. Inv => DifficultyImpliesRecency
  <2> SUFFICES ASSUME Inv, NEW a \in snap.Signers, CalcDifficulty(snap, a) # 0,
                      snap.LastSigned[a] > 0
               PROVE  snap.Number + 1 >= nextSignableBlockNumber(snap, snap.LastSigned[a])
    BY DEF DifficultyImpliesRecency, MaySign
  <2> DEFINE m == snap.LastSigned[a]
             L == {b \in snap.Signers : snap.LastSigned[b] > m}
             n == Cardinality(snap.Signers)
  <2>1. /\ m \in Nat /\ m <= snap.Number /\ snap.Number \in Nat
        /\ n \in Nat
    BY FS_CardinalityType DEF Inv, Good, SignersOK, Snapshot
  <2>2. Cardinality(L) \in Nat /\ Cardinality(L) <= snap.Number - m
    BY <2>1, SignedAfter DEF Inv
  <2>3. LowerPriority(snap, a) = L
    BY DEF LowerPriority
  <2>4. ~(1 + Cardinality(L) <= n \div 2)
    BY <2>3 DEF CalcDifficulty
  <2> HIDE DEF L
  <2> QED BY <2>1, <2>2, <2>4 DEF nextSignableBlockNumber
<1> QED BY <1>1, Invariance, PTL

\* A non-empty set of numbers has a least element.
LEMMA LeastElement ==
  ASSUME NEW T, T \subseteq Nat, T # {}
  PROVE  \E x \in T : \A y \in T : x <= y
<1>1. \E x \in T : \A y \in T : ~(<<y, x>> \in OpToRel(<, Nat))
  BY NatLessThanWellFounded, WFMin, Zenon
<1>2. PICK x \in T : \A y \in T : ~(<<y, x>> \in OpToRel(<, Nat))
  BY <1>1, Zenon
<1>3. ASSUME NEW y \in T PROVE x <= y
  <2>1. x \in Nat /\ y \in Nat
    OBVIOUS
  <2>2. ~(y < x)
    BY <1>2, <2>1, Zenon DEF OpToRel
  <2> QED BY <2>1, <2>2
<1> QED BY <1>3

\* Some signer comes before all others, and gets the full difficulty n.
LEMMA TopSigner ==
  ASSUME NEW s, Good(s, s.Number), s.Signers # {}
  PROVE  \E a \in s.Signers : LowerPriority(s, a) = s.Signers \ {a}
<1>0. \A a \in s.Signers : a \in Nat /\ s.LastSigned[a] \in Nat
  BY AddressAssumption DEF Good, Snapshot
<1>1. CASE \E a \in s.Signers : s.LastSigned[a] = 0
  <2> DEFINE U == {a \in s.Signers : s.LastSigned[a] = 0}
  <2>1. PICK a \in U : \A b \in U : a <= b
    BY <1>0, <1>1, LeastElement, Zenon
  <2>2. LowerPriority(s, a) = {b \in s.Signers : s.LastSigned[b] > 0 \/ b > a}
    BY <2>1 DEF LowerPriority
  <2>3. \A b \in s.Signers : (s.LastSigned[b] > 0 \/ b > a) <=> b # a
    BY <1>0, <2>1
  <2> QED BY <2>1, <2>2, <2>3
<1>2. CASE \A a \in s.Signers : s.LastSigned[a] > 0
  <2> DEFINE U == {s.LastSigned[a] : a \in s.Signers}
  <2>1. U \subseteq Nat /\ U # {}
    BY <1>0
  <2>2. PICK x \in U : \A y \in U : x <= y
    BY <2>1, LeastElement, Zenon
  <2>3. PICK a \in s.Signers : x = s.LastSigned[a]
    BY <2>2
  <2>4. LowerPriority(s, a) = {b \in s.Signers : s.LastSigned[b] > s.LastSigned[a]}
    BY <1>2, <2>3 DEF LowerPriority
  <2>5. ASSUME NEW b \in s.Signers PROVE s.LastSigned[b] > s.LastSigned[a] <=> b # a
    <3>1. s.LastSigned[a] <= s.LastSigned[b]
      BY <2>2, <2>3
    <3>2. b # a => s.LastSigned[b] # s.LastSigned[a]
      BY <1>2 DEF Good, SignersOK
    <3> QED BY <1>0, <3>1, <3>2
  <2> QED BY <2>3, <2>4, <2>5
<1> QED BY <1>0, <1>1, <1>2

\* Of two signers one comes before the other, and before all that the other
\* comes before.
LEMMA PrioritiesNested ==
  ASSUME NEW s, Good(s, s.Number), NEW a \in s.Signers, NEW b \in s.Signers, a # b
  PROVE  \/ LowerPriority(s, a) \subseteq LowerPriority(s, b) /\ a \in LowerPriority(s, b)
         \/ LowerPriority(s, b) \subseteq LowerPriority(s, a) /\ b \in LowerPriority(s, a)
<1>0. \A c \in s.Signers : c \in Nat /\ s.LastSigned[c] \in Nat
  BY AddressAssumption DEF Good, Snapshot
<1>1. CASE s.LastSigned[a] > 0 /\ s.LastSigned[b] > 0
  <2>1. s.LastSigned[a] # s.LastSigned[b]
    BY <1>1 DEF Good, SignersOK
  <2> QED BY <1>0, <1>1, <2>1 DEF LowerPriority
<1>2. CASE ~(s.LastSigned[a] > 0 /\ s.LastSigned[b] > 0)
  BY <1>0, <1>2 DEF LowerPriority
<1> QED BY <1>1, <1>2

\* No signer comes before itself.
LEMMA NotBeforeItself ==
  ASSUME NEW s, Good(s, s.Number), NEW a \in s.Signers
  PROVE  a \notin LowerPriority(s, a)
<1>1. a \in Nat /\ s.LastSigned[a] \in Nat
  BY AddressAssumption DEF Good, Snapshot
<1> QED BY <1>1 DEF LowerPriority

\* No two signers have the same difficulty, and a difficulty is a rank among
\* the signers in the upper half.
THEOREM DifficultiesDiffer == Spec => []DifficultyRanks
<1>1. Inv => DifficultyRanks
  <2> SUFFICES ASSUME Inv, NEW a \in snap.Signers, NEW b \in snap.Signers, CalcDifficulty(snap, a) # 0
               PROVE  LET n == Cardinality(snap.Signers)
                          d == CalcDifficulty(snap, a)
                      IN  d \in (n \div 2 + 1)..n /\ (d = CalcDifficulty(snap, b) => a = b)
    BY DEF DifficultyRanks
  <2> DEFINE n == Cardinality(snap.Signers)
             A == LowerPriority(snap, a)
             B == LowerPriority(snap, b)
  <2>1. IsFiniteSet(snap.Signers) /\ n \in Nat /\ Good(snap, snap.Number)
    BY FS_CardinalityType DEF Inv, Good, SignersOK
  <2>2. /\ IsFiniteSet(A) /\ Cardinality(A) \in Nat
        /\ IsFiniteSet(B) /\ Cardinality(B) \in Nat
    BY <2>1, DifficultyNat
  <2>3. A \subseteq snap.Signers /\ A # snap.Signers
    <3>1. a \notin A
      BY <2>1, NotBeforeItself
    <3> QED BY <3>1 DEF LowerPriority
  <2>4. a # b => Cardinality(A) # Cardinality(B)
    <3> SUFFICES ASSUME a # b PROVE Cardinality(A) # Cardinality(B)
      OBVIOUS
    <3>1. a \notin A /\ b \notin B
      BY <2>1, NotBeforeItself
    <3>2. (A \subseteq B /\ a \in B) \/ (B \subseteq A /\ b \in A)
      BY <2>1, PrioritiesNested
    <3> HIDE DEF A, B
    <3> QED BY <2>2, <3>1, <3>2, FS_Subset
  <2>5. CalcDifficulty(snap, a) = 1 + Cardinality(A) /\ ~(1 + Cardinality(A) <= n \div 2)
    BY DEF CalcDifficulty
  <2>6. \/ CalcDifficulty(snap, b) = 0
        \/ CalcDifficulty(snap, b) = 1 + Cardinality(B)
    BY DEF CalcDifficulty
  <2> HIDE DEF A, B
  <2>7. Cardinality(A) < n
    BY <2>1, <2>2, <2>3, FS_Subset
  <2> QED BY <2>1, <2>2, <2>4, <2>5, <2>6, <2>7
<1> QED BY <1>1, Invariance, PTL

\* There is always a signer who may sign the next block.
THEOREM AlwaysSomeoneMaySign == Spec => []SomeoneMaySign
<1>1. Inv /\ DifficultyImpliesRecency => SomeoneMaySign
  <2> SUFFICES ASSUME Inv, DifficultyImpliesRecency PROVE SomeoneMaySign
    OBVIOUS
  <2>1. PICK a \in snap.Signers : LowerPriority(snap, a) = snap.Signers \ {a}
    BY TopSigner DEF Inv
  <2>2. /\ Cardinality(snap.Signers) \in Nat
        /\ Cardinality(LowerPriority(snap, a)) = Cardinality(snap.Signers) - 1
    BY <2>1, FS_RemoveElement, FS_CardinalityType, ZenonT(60) DEF Inv, Good, SignersOK
  <2>3. Cardinality(LowerPriority(snap, a)) \in Nat
    BY DifficultyNat DEF Inv, Good, SignersOK
  <2>4. CalcDifficulty(snap, a) # 0
    BY <2>2, <2>3 DEF CalcDifficulty
  <2> QED BY <2>4 DEF SomeoneMaySign, DifficultyImpliesRecency
<1> QED BY <1>1, Invariance, RecencyFollows, PTL

\* As long as there are voters the chain can grow: some signer's plain block
\* passes verifyHeader and verifySeal.
THEOREM ChainCanGrow == Spec => []PlainBlockAccepted
<1>1. Inv /\ SomeoneMaySign => PlainBlockAccepted
  <2> SUFFICES ASSUME Inv, SomeoneMaySign,
                      snap.Voters # {} \/ (snap.Number + 1) % Epoch # 0
               PROVE  \E a \in snap.Signers :
                        VerifyHeader(snap, NewHeader(a, CalcDifficulty(snap, a), NoBallot))
    BY DEF PlainBlockAccepted
  <2>1. PICK a \in snap.Signers : MaySign(snap, a) /\ CalcDifficulty(snap, a) # 0
    BY DEF SomeoneMaySign
  <2>2. VerifyHeader(snap, NewHeader(a, CalcDifficulty(snap, a), NoBallot))
    BY <2>1 DEF VerifyHeader, verifyHeader, verifyCascadingFields, EpochDue, verifySeal, NewHeader, NoBallot
  <2> QED BY <2>2
<1> QED BY <1>1, Invariance, AlwaysSomeoneMaySign, PTL

=============================================================================
