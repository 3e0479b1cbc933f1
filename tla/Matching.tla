------------------------------ MODULE Matching ------------------------------
(***************************************************************************)
(* The matching module of the API (modules/matching): who can teach what   *)
(* another wants to learn, and who could exchange skills.  Both read the   *)
(* requester and the candidates in two queries at once, while people       *)
(* change their skills, goals and visibility.                              *)
(***************************************************************************)
EXTENDS Api, FiniteSets, SequencesExt

CONSTANTS
  Members,  \* users, and their order by display name, then id
  Topics    \* skills

\* The tables hold finitely many rows; a member is its place in the order of the names.
ASSUME MatchingAssumption == Members \subseteq Nat /\ IsFiniteSet(Members) /\ IsFiniteSet(Topics)

VARIABLES
  teaches,  \* [Members -> user_skills with canTeach]
  learns,   \* [Members -> learning_goals]
  listed    \* members that are ACTIVE with a PUBLIC profile

matchingVars == <<teaches, learns, listed, handler>>

-----------------------------------------------------------------------------
\* What a request knows of one member, and what two members can do for each other.
Person(m) == [id |-> m, teaches |-> teaches[m], learns |-> learns[m]]

Offers(teacher, learner) == teacher.teaches \cap learner.learns

\* findPairs: [what you can teach, what they can teach].
Pairs(me, they) == Offers(me, they) \X Offers(they, me)

\* (Mutation: only who could exchange.)
RelevantBothWays(me, they) == Offers(they, me) # {} /\ Offers(me, they) # {}
Relevant(me, they) == Offers(they, me) # {} \/ Offers(me, they) # {}

MatchScore(me, they) ==
  Cardinality(Offers(they, me)) + Cardinality(Offers(me, they))
    + (IF Pairs(me, they) = {} THEN 0 ELSE 1)

\* What puts one candidate before another: its name, or a higher score and then its name.
ByName(people) == {p \in people \X people : p[1].id < p[2].id}

ByScore(me, people) ==
  {p \in people \X people :
     \/ MatchScore(me, p[1]) > MatchScore(me, p[2])
     \/ MatchScore(me, p[1]) = MatchScore(me, p[2]) /\ p \in ByName(people)}

\* sort: the people in a sequence whose members are in order.
Sorted(people, order) ==
  LET places == 1..Cardinality(people)
  IN  CHOOSE seq \in [places -> people] :
        \A i, j \in places : i < j => <<seq[i], seq[j]>> \in order

Matched(me, candidates) == {c \in candidates : Relevant(me, c)}
Partners(me, candidates) == {c \in candidates : Pairs(me, c) # {}}

\* findMatches: the best first, then by name.  listMutualExchanges: by name.
Matches(me, candidates) ==
  Sorted(Matched(me, candidates), ByScore(me, Matched(me, candidates)))

Exchanges(me, candidates) ==
  Sorted(Partners(me, candidates), ByName(Partners(me, candidates)))

Page(items, page, limit) == SubSeq(items, (page - 1) * limit + 1, Min({page * limit, Len(items)}))

-----------------------------------------------------------------------------
MatchingHandler ==
  {Idle} \cup [pc : {"candidates"}, me : [id : Members, teaches : SUBSET Topics, learns : SUBSET Topics]]

MatchingTypeOK ==
  /\ teaches \in [Members -> SUBSET Topics]
  /\ learns \in [Members -> SUBSET Topics]
  /\ listed \in SUBSET Members
  /\ handler \in [Handlers -> MatchingHandler]

MatchingInit ==
  /\ teaches = [m \in Members |-> {}]
  /\ learns = [m \in Members |-> {}]
  /\ listed = Members
  /\ handler = [h \in Handlers |-> Idle]

\* A member changes what it teaches, what it learns, or who sees it.
Change(m) ==
  /\ \/ \E skills \in SUBSET Topics : teaches' = [teaches EXCEPT ![m] = skills] /\ UNCHANGED <<learns, listed>>
     \/ \E skills \in SUBSET Topics : learns' = [learns EXCEPT ![m] = skills] /\ UNCHANGED <<teaches, listed>>
     \/ listed' \in {listed \cup {m}, listed \ {m}} /\ UNCHANGED <<teaches, learns>>
  /\ UNCHANGED handler

\* loadMatchData: the requester in one query, the candidates in the other.
LoadRequester(h, m) ==
  /\ Begin(h, [pc |-> "candidates", me |-> Person(m)])
  /\ UNCHANGED <<teaches, learns, listed>>

Candidates(m) == {Person(c) : c \in listed \ {m}}

LoadCandidates(h) ==
  /\ At(h, "candidates")
  /\ Finish(h)
  /\ UNCHANGED <<teaches, learns, listed>>

MatchingNext ==
  \/ \E m \in Members : Change(m) \/ \E h \in Handlers : LoadRequester(h, m)
  \/ \E h \in Handlers : LoadCandidates(h)

MatchingSpec == MatchingInit /\ [][MatchingNext]_matchingVars

-----------------------------------------------------------------------------
\* What a request would answer that now gets its candidates.
CanTeach(teacher, learner) == \E x \in Topics : x \in teacher.teaches /\ x \in learner.learns

\* Sorting: someone earlier has a higher score, or the same and an earlier name.
BestFirst(me, items) ==
  \A i, j \in DOMAIN items : i < j =>
    \/ MatchScore(me, items[i]) > MatchScore(me, items[j])
    \/ MatchScore(me, items[i]) = MatchScore(me, items[j]) /\ items[i].id < items[j].id

InNameOrder(items) == \A i, j \in DOMAIN items : i < j => items[i].id < items[j].id

\* The score and the exchanges are the same when the other asks, of the same rows.
SeenFromBothSides(me, c) ==
  /\ MatchScore(me, c) = MatchScore(c, me)
  /\ Pairs(c, me) = {<<p[2], p[1]>> : p \in Pairs(me, c)}

\* Every page of an answer, one after the other.
Paged(items, limit) == FlattenSeq([p \in 1..Cardinality(Members) |-> Page(items, p, limit)])

AnswerSound(me, candidates) ==
  LET matches == Matches(me, candidates)
      exchanges == Exchanges(me, candidates)
  IN  /\ ToSet(matches) = {c \in candidates : CanTeach(me, c) \/ CanTeach(c, me)}
      /\ ToSet(exchanges) = {c \in candidates : CanTeach(me, c) /\ CanTeach(c, me)}
      /\ BestFirst(me, matches) /\ InNameOrder(exchanges)
      /\ \A c \in candidates : SeenFromBothSides(me, c)
      /\ \A limit \in 1..Cardinality(Members) :
           matches = Paged(matches, limit) /\ exchanges = Paged(exchanges, limit)

\* Of the rows that were read, the requester's perhaps before it changed them: an answer
\* lists those candidates who can teach the requester or learn from it, and as exchanges
\* those who can do both, each once and in order; its pages, one after the other, are the
\* answer; and the other's score and exchanges are the same.  That the rows of the two
\* queries were ever true together is not claimed.
MatchesAgree ==
  \A h \in Handlers : At(h, "candidates") =>
    AnswerSound(handler[h].me, Candidates(handler[h].me.id))
=============================================================================
