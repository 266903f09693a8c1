----------------------------- MODULE CliqueChain -----------------------------
(***************************************************************************)
(* One chain of blocks as the clique engine accepts it: a step appends any *)
(* header that Clique.VerifyHeader accepts on top of the current snapshot, *)
(* and applies it.  Headers are whatever a signer may send, not only what  *)
(* Prepare builds.                                                         *)
(***************************************************************************)
EXTENDS CliqueSnapshot

CONSTANTS
  Candidates,  \* bound: the accounts that votes are about
  MaxNumber    \* bound: the height at which the chain stops growing

ASSUME BoundsAssumption == Candidates \subseteq Address /\ MaxNumber \in Nat

VARIABLES
  snap,  \* the snapshot after the last block
  head   \* the header of the last block

vars == <<snap, head>>

Lists == {"same", "longer", "other"}

\* The vote in Extra: without one, candidate and election are the zero values.
\* Lists matter in an epoch block only, which has no vote.
Ballot ==
  [hasVote : {TRUE}, candidate : Candidates, voterElection : BOOLEAN, authorize : BOOLEAN,
   lists : {"same"}]
    \cup [hasVote : {FALSE}, candidate : {0}, voterElection : {FALSE}, authorize : BOOLEAN,
          lists : Lists]

Header ==
  [signer : Address, difficulty : Nat, hasVote : BOOLEAN, candidate : Address,
   voterElection : BOOLEAN, authorize : BOOLEAN, lists : Lists]

Init ==
  /\ snap = newGenesisSnapshot
  /\ head = NewHeader(0, 0, NoBallot)

Accept(a, b) ==
  LET h == NewHeader(a, CalcDifficulty(snap, a), b)
  IN  /\ snap.Number < MaxNumber
      /\ VerifyHeader(snap, h)
      /\ snap' = applyHeader(snap, h)
      /\ head' = h

Next == \E a \in Address, b \in Ballot : Accept(a, b)

Spec == Init /\ [][Next]_vars

-----------------------------------------------------------------------------
(* Properties.                                                             *)

\* The snapshot keeps the type that snapshot.go declares, and so does the
\* last header.
TypeOK == snap \in Snapshot /\ head \in Header

\* Every voter is a signer, and the signers never vote themselves out of
\* existence: apply only adds a signer to Voters and only deletes a non-voter
\* from Signers.
VotersAreSigners ==
  /\ snap.Voters \subseteq snap.Signers
  /\ snap.Signers # {}

\* A pending vote was cast by a current voter, is its only one on that account,
\* and still makes sense: the discards of apply leave no vote of a removed
\* voter and none about an account whose status changed.
PendingVotesMeaningful ==
  \A v \in snap.Votes :
    /\ v.Signer \in snap.Voters
    /\ v.Block <= snap.Number
    /\ v.Address \notin snap.Signers => v.Authorize
    /\ v.Address \in snap.Voters => ~v.Authorize
    /\ \A w \in snap.Votes : w.Signer = v.Signer /\ w.Address = v.Address => w = v

\* The pending votes for the proposal about a.
Supporters(s, a) == {v \in s.Votes : v.Address = a /\ v.Authorize = s.Tally[a].Authorize}

\* The accounts for which votes of both directions make sense at once: a
\* signer that is no voter may be promoted or dropped.
Contested(s) == s.Signers \ s.Voters

\* The cached tally of an uncontested account is the number of pending votes
\* for its proposal: cast, uncast and the discards keep the two in step.
TallyExact ==
  \A a \in Address \ Contested(snap) :
    snap.Tally[a].Votes = Cardinality(Supporters(snap, a))

\* No two signers share their last signed block, and none is in the future.
LastSignedDistinct ==
  \A a, b \in snap.Signers :
    /\ snap.LastSigned[a] <= snap.Number
    /\ snap.LastSigned[a] = snap.LastSigned[b] /\ snap.LastSigned[a] > 0 => a = b

\* The chain cannot run out of signers: on every snapshot some signer passes
\* both the recency check and the difficulty rule of verifySeal.
SomeoneMaySign ==
  \E a \in snap.Signers : MaySign(snap, a) /\ CalcDifficulty(snap, a) # 0

\* The difficulty rule implies the recency rule, whatever joins and departures
\* did to the size of the signer set: a signer whom Prepare gives a difficulty
\* is never then refused by Seal, verifySeal or apply for having signed recently.
DifficultyImpliesRecency ==
  \A a \in snap.Signers : CalcDifficulty(snap, a) # 0 => MaySign(snap, a)

\* Signers with a difficulty have different ones, in n/2+1..n: two blocks on
\* one parent never tie.
DifficultyRanks ==
  \A a, b \in snap.Signers :
    LET n == Cardinality(snap.Signers)
        d == CalcDifficulty(snap, a)
    IN  d # 0 => /\ d \in (n \div 2 + 1)..n
                 /\ d = CalcDifficulty(snap, b) => a = b

\* As long as there are voters, or no epoch block is due, some signer's plain
\* block (no vote, as Prepare builds it without proposals) is accepted.
PlainBlockAccepted ==
  snap.Voters # {} \/ (snap.Number + 1) % Epoch # 0 =>
    \E a \in snap.Signers :
      VerifyHeader(snap, NewHeader(a, CalcDifficulty(snap, a), NoBallot))

Status(s, a) == <<a \in s.Signers, a \in s.Voters>>

\* A block changes the status of no account but the one it votes on, and that
\* by one rank: "Cascading changes are not allowed".
OnlyCandidateChanges ==
  [][\A a \in Address :
       Status(snap', a) # Status(snap, a) =>
         /\ a = head'.candidate
         /\ head'.signer \in snap.Voters
         /\ (a \in snap.Signers) = (a \in snap'.Signers) \/ a \notin snap.Voters \cup snap'.Voters]_vars

\* The voters with a pending vote about a, counting the one in header h.
VotedOn(s, h, a) == {v.Signer : v \in {w \in s.Votes : w.Address = a}} \cup {h.signer}

\* Those of them whose vote is for the change that is about to happen.
Wanting(s, h, a, authorize) ==
  {v.Signer : v \in {w \in s.Votes : /\ w.Address = a
                                     /\ w.Authorize = authorize
                                     /\ w.Signer # h.signer}}
    \cup {b \in {h.signer} : h.authorize = authorize}

\* Whether the change of a's status from s to t is a promotion.
Promoted(s, t, a) == \/ a \in t.Signers \ s.Signers
                     \/ a \in t.Voters \ s.Voters

\* An uncontested account changes status only when more than half of the
\* voters, each counted once, want the change.
MajorityDecides ==
  [][\A a \in Address \ Contested(snap) :
       Status(snap', a) # Status(snap, a) =>
         2 * Cardinality(Wanting(snap, head', a, Promoted(snap, snap', a)))
           > Cardinality(snap.Voters)]_vars

\* The doc of Tally, for every account: "Votes that go against the proposal
\* aren't counted", so more than half of the voters want a change that happens.
OpposingVotesNotCounted ==
  [][\A a \in Address :
       Status(snap', a) # Status(snap, a) =>
         2 * Cardinality(Wanting(snap, head', a, Promoted(snap, snap', a)))
           > Cardinality(snap.Voters)]_vars

\* The test table's "counted once per signer per target", for every account:
\* more than half of the voters, whatever they voted, are behind a change.
CountedOncePerSigner ==
  [][\A a \in Address :
       Status(snap', a) # Status(snap, a) =>
         2 * Cardinality(VotedOn(snap, head', a)) > Cardinality(snap.Voters)]_vars

=============================================================================
