--------------------------- MODULE CliqueSnapshot ---------------------------
(***************************************************************************)
(* The authorization snapshot of the clique proof-of-authority engine      *)
(* (consensus/clique/snapshot.go and the rules of clique.go that read it), *)
(* as pure operators on a snapshot record.                                 *)
(*                                                                         *)
(* Addresses are the numbers their 20 bytes spell, so that the code's      *)
(* bytes.Compare is <; 0 is the zero address.  Each block appends at most  *)
(* one vote, so the chronological list Votes is the set of its votes       *)
(* ordered by Block.  The Go map Tally yields the zero value for a missing *)
(* key and never stores a tally with no votes: it is a total function      *)
(* whose NoTally entries are the missing keys.  The Go map Signers, from   *)
(* signers to the last block they signed, is the set Signers and the total *)
(* function LastSigned, which is 0 (the zero value) outside Signers.       *)
(***************************************************************************)
EXTENDS Integers, FiniteSets

CONSTANTS
  Address,         \* the accounts that may sign, vote or be voted on
  GenesisSigners,  \* Signers of the genesis header
  GenesisVoters,   \* Voters of the genesis header
  Epoch            \* params.CliqueConfig.Epoch

ASSUME AddressAssumption == Address \subseteq Nat /\ 0 \in Address
ASSUME EpochAssumption == Epoch \in Nat \ {0}
ASSUME GenesisAssumption ==
  /\ GenesisSigners \subseteq Address
  /\ IsFiniteSet(GenesisSigners)
  /\ GenesisVoters \subseteq GenesisSigners
  /\ GenesisVoters # {}

Vote == [Signer : Address, Block : Nat, Address : Address, Authorize : BOOLEAN]
Tally == [Authorize : BOOLEAN, Votes : Nat]
NoTally == [Authorize |-> FALSE, Votes |-> 0]
NoTallies == [a \in Address |-> NoTally]

\* The struct Snapshot.
Snapshot ==
  [Number     : Nat,
   Signers    : SUBSET Address,
   LastSigned : [Address -> Nat],
   Voters     : SUBSET Address,
   Votes      : SUBSET Vote,
   Tally      : [Address -> Tally]]

newGenesisSnapshot ==
  [Number     |-> 0,
   Signers    |-> GenesisSigners,
   LastSigned |-> [a \in Address |-> 0],
   Voters     |-> GenesisVoters,
   Votes      |-> {},
   Tally      |-> NoTallies]

-----------------------------------------------------------------------------
(* Voting.                                                                 *)

\* A vote makes sense iff it would change the status it is about.
validVote(s, address, authorize, voterElection) ==
  authorize # (address \in IF voterElection THEN s.Voters ELSE s.Signers)

\* The tally after a valid vote: an existing tally is incremented whatever
\* the direction of the vote.
cast(tally, address, authorize) ==
  LET old == tally[address]
  IN  [tally EXCEPT ![address] =
         IF old.Votes > 0 THEN [old EXCEPT !.Votes = @ + 1]
                          ELSE [Authorize |-> authorize, Votes |-> 1]]

\* The tally after k votes of one direction on an address are taken back.
uncastMany(old, authorize, k) ==
  IF old.Authorize # authorize \/ k = 0 THEN old
  ELSE IF old.Votes > k THEN [old EXCEPT !.Votes = @ - k]
  ELSE NoTally

uncast(tally, address, authorize) ==
  [tally EXCEPT ![address] = uncastMany(@, authorize, 1)]

\* Mutant of EpochReset: the cached tally is forgotten.
EpochResetVotesOnly(s) ==
  IF (s.Number + 1) % Epoch = 0 THEN [s EXCEPT !.Votes = {}] ELSE s

\* Votes and tallies do not survive an epoch block.
EpochReset(s) ==
  IF (s.Number + 1) % Epoch = 0
  THEN [s EXCEPT !.Votes = {}, !.Tally = NoTallies]
  ELSE s

\* The earliest vote of the signer on the candidate is taken back.
DiscardPrevious(s, signer, candidate) ==
  LET prev == {v \in s.Votes : v.Signer = signer /\ v.Address = candidate}
      vote == CHOOSE v \in prev : \A w \in prev : v.Block <= w.Block
  IN  IF prev = {} THEN s
      ELSE [s EXCEPT !.Votes = @ \ {vote},
                     !.Tally = uncast(@, vote.Address, vote.Authorize)]

CastVote(s, h) ==
  IF validVote(s, h.candidate, h.authorize, h.voterElection)
  THEN [s EXCEPT !.Tally = cast(@, h.candidate, h.authorize),
                 !.Votes = @ \cup {[Signer    |-> h.signer,
                                    Block     |-> s.Number + 1,
                                    Address   |-> h.candidate,
                                    Authorize |-> h.authorize]}]
  ELSE s

\* All the votes that a removed voter cast are taken back.
DiscardVotesOf(s, voter) ==
  LET by(a, d) == {v \in s.Votes : /\ v.Signer = voter
                                   /\ v.Address = a
                                   /\ v.Authorize = d}
  IN  [s EXCEPT !.Votes = {v \in @ : v.Signer # voter},
                !.Tally = [a \in Address |->
                             uncastMany(s.Tally[a], s.Tally[a].Authorize,
                                        Cardinality(by(a, s.Tally[a].Authorize)))]]

\* The status change of a passed proposal.
ChangeStatus(s, c) ==
  CASE s.Tally[c].Authorize /\ c \notin s.Signers ->
         [s EXCEPT !.Signers = @ \cup {c}, !.LastSigned = [@ EXCEPT ![c] = 0]]
    [] s.Tally[c].Authorize /\ c \in s.Signers ->
         [s EXCEPT !.Voters = @ \cup {c}]
    [] ~s.Tally[c].Authorize /\ c \notin s.Voters ->
         [s EXCEPT !.Signers = @ \ {c}, !.LastSigned = [@ EXCEPT ![c] = 0]]
    [] OTHER ->
         DiscardVotesOf([s EXCEPT !.Voters = @ \ {c}], c)

\* Whatever was pending about the changed account is dropped.
DiscardVotesOn(s, c) ==
  [s EXCEPT !.Votes = {v \in @ : v.Address # c},
            !.Tally = [@ EXCEPT ![c] = NoTally]]

\* Mutant of Majority: half is enough.
HalfOfVoters(s) == Cardinality(s.Voters) \div 2

Majority(s) == Cardinality(s.Voters) \div 2 + 1

PassVote(s, c) ==
  IF s.Tally[c].Votes >= Majority(s) THEN DiscardVotesOn(ChangeStatus(s, c), c) ELSE s

\* What apply does for one header (its checks are MaySign below).
applyHeader(s, h) ==
  LET reset  == EpochReset(s)
      signed == [reset EXCEPT !.LastSigned = [@ EXCEPT ![h.signer] = s.Number + 1]]
      voted  == IF h.signer \in s.Voters
                THEN PassVote(CastVote(DiscardPrevious(signed, h.signer, h.candidate), h),
                              h.candidate)
                ELSE signed
  IN  [voted EXCEPT !.Number = @ + 1]

-----------------------------------------------------------------------------
(* Who may sign the next block, and with which difficulty.                 *)

nextSignableBlockNumber(s, lastSigned) ==
  lastSigned + Cardinality(s.Signers) \div 2 + 1

\* The checks of apply, verifySeal and Seal on the signer of block s.Number + 1.
MaySign(s, signer) ==
  /\ signer \in s.Signers
  /\ s.LastSigned[signer] > 0 => s.Number + 1 >= nextSignableBlockNumber(s, s.LastSigned[signer])

\* Mutant of LowerPriority: signers that have not signed yet are not ordered.
LowerPriorityUnordered(s, signer) ==
  IF s.LastSigned[signer] > 0
  THEN {a \in s.Signers : s.LastSigned[a] > s.LastSigned[signer]}
  ELSE s.Signers \ {signer}

\* The signers with lower priority than signer.
LowerPriority(s, signer) ==
  IF s.LastSigned[signer] > 0
  THEN {a \in s.Signers : s.LastSigned[a] > s.LastSigned[signer]}
  ELSE {a \in s.Signers : s.LastSigned[a] > 0 \/ a > signer}

\* Mutant of CalcDifficulty: < for <=.
CalcDifficultyLenient(s, signer) ==
  LET difficulty == 1 + Cardinality(LowerPriority(s, signer))
  IN  IF difficulty < Cardinality(s.Signers) \div 2 THEN 0 ELSE difficulty

CalcDifficulty(s, signer) ==
  LET difficulty == 1 + Cardinality(LowerPriority(s, signer))
  IN  IF difficulty <= Cardinality(s.Signers) \div 2 THEN 0 ELSE difficulty

-----------------------------------------------------------------------------
(* Headers, and what Clique.VerifyHeader accepts.                          *)

\* The fields that the rules read.  lists is how the header's Signers and Voters
\* relate to those of the snapshot, in the order of signers() and voters(): the
\* same, followed by further entries, or different at some index.
NewHeader(signer, difficulty, ballot) ==
  [signer |-> signer, difficulty |-> difficulty, hasVote |-> ballot.hasVote,
   candidate |-> ballot.candidate, voterElection |-> ballot.voterElection,
   authorize |-> ballot.authorize, lists |-> ballot.lists]

\* What Prepare puts in a header when there is nothing to propose.
NoBallot ==
  [hasVote |-> FALSE, candidate |-> 0, voterElection |-> FALSE, authorize |-> FALSE,
   lists |-> "same"]

EpochDue(s) == (s.Number + 1) % Epoch = 0

\* Mutant of verifyHeader: a single voter is taken for none.
verifyHeaderTwoVoters(s, h) ==
  /\ EpochDue(s) => /\ ~h.hasVote
                    /\ ~h.authorize
                    /\ h.lists = "same" => s.Signers # {} /\ Cardinality(s.Voters) > 1
  /\ h.difficulty # 0

\* An epoch block carries no vote, and lists that are not empty.
verifyHeader(s, h) ==
  /\ EpochDue(s) => /\ ~h.hasVote
                    /\ ~h.authorize
                    /\ h.lists = "same" => s.Signers # {} /\ s.Voters # {}
  /\ h.difficulty # 0

\* The lists of an epoch block are compared at the indices of the snapshot's only:
\* entries after those pass.  (A list with fewer entries than the snapshot's is an
\* index out of range; no header here has one.)
verifyCascadingFields(s, h) == EpochDue(s) => h.lists # "other"

verifySeal(s, h) ==
  /\ MaySign(s, h.signer)
  /\ h.difficulty = CalcDifficulty(s, h.signer)

VerifyHeader(s, h) == verifyHeader(s, h) /\ verifyCascadingFields(s, h) /\ verifySeal(s, h)

=============================================================================
