-------------------------- MODULE NeedLinksProofs --------------------------
(***************************************************************************)
(* Proofs about NeedLinks, for any elements, any links and any depth.      *)
(***************************************************************************)
EXTENDS NeedLinks, FiniteSetTheorems, NaturalInduction, TLAPS

Calls == [need : Needs, depth : 0 .. MaxDepth]

(* Before the query nothing has been read. *)
Fresh ==
    step \notin {"trace", "answered"} => ids = {} /\ visited = {} /\ calls = <<>> /\ links = {}

(* Each call to come is as deep as the path that leads to its element. *)
CallsReached ==
    step = "trace" =>
        /\ \A i \in DOMAIN calls : calls[i].need \in Reached(calls[i].depth)
        /\ ids \subseteq Within

(* The direct links of the root are listed or still to come. *)
RootPending ==
    step = "trace" =>
        /\ visited = ids
        /\ \/ calls = <<Call(Root, 0)>> /\ ids = {}
           \/ MaxDepth > 0 =>
                 \A other \in Links(Root) :
                    other \in ids \/ \E i \in DOMAIN calls : calls[i].need = other

RootListed == step = "answered" /\ MaxDepth > 0 => Links(Root) \subseteq ids

Inv == TypeOK /\ Fresh /\ CallsReached /\ RootPending /\ RootListed

-----------------------------------------------------------------------------
(* Lists of links.                                                         *)

(* A list without repetitions that is as long as a finite set is large     *)
(* holds all its elements.                                                 *)
LEMMA OrderIsComplete ==
    ASSUME NEW S, IsFiniteSet(S), NEW order \in SetToSeqs(S)
    PROVE  /\ Cardinality(S) \in Nat
           /\ order \in [1 .. Cardinality(S) -> S]
           /\ \A x \in S : \E i \in 1 .. Cardinality(S) : order[i] = x
<1>1. Cardinality(S) \in Nat
  BY FS_CardinalityType
<1>2. /\ order \in [1 .. Cardinality(S) -> S]
      /\ \A i, j \in 1 .. Cardinality(S) : i # j => order[i] # order[j]
  BY DEF SetToSeqs
<1>3. order \in Injection(1 .. Cardinality(S), S)
  BY <1>2 DEF Injection, IsInjective
<1>4. Cardinality(1 .. Cardinality(S)) = Cardinality(S)
  BY <1>1, FS_Interval
<1>5. order \in Surjection(1 .. Cardinality(S), S)
  BY <1>3, <1>4, FS_Injection
<1>6. QED
  BY <1>1, <1>2, <1>5 DEF Surjection

(* The recursive calls for an element: one level deeper, and one for each  *)
(* of its links.                                                           *)
LEMMA ChildrenOfCall ==
    ASSUME NEW call \in Calls, links \subseteq files \X Needs, NEW children \in Children(call)
    PROVE  /\ children \in Seq(Calls)
           /\ \A i \in DOMAIN children :
                 /\ call.depth < MaxDepth
                 /\ children[i].depth = call.depth + 1
                 /\ children[i].need \in Links(call.need)
           /\ call.depth < MaxDepth =>
                 \A other \in Links(call.need) : \E i \in DOMAIN children : children[i].need = other
<1> USE NeedsAssumption
<1>1. CASE ~Expanded(call)
  <2>1. children = <<>>
    BY <1>1 DEF Children
  <2>2. call.depth < MaxDepth => Links(call.need) = {}
    BY <1>1 DEF Expanded, Links
  <2>3. <<>> \in Seq(Calls) /\ DOMAIN <<>> = {}
    OBVIOUS
  <2>4. QED
    BY <2>1, <2>2, <2>3
<1>2. CASE Expanded(call)
  <2>1. Links(call.need) \subseteq Needs /\ IsFiniteSet(Links(call.need))
    BY FS_Subset DEF Links
  <2>2. PICK order \in SetToSeqs(Links(call.need)) :
            children = [i \in DOMAIN order |-> Call(order[i], call.depth + 1)]
    BY <1>2 DEF Children
  <2> DEFINE n == Cardinality(Links(call.need))
  <2>3. /\ n \in Nat
        /\ order \in [1 .. n -> Links(call.need)]
        /\ \A x \in Links(call.need) : \E i \in 1 .. n : order[i] = x
    BY <2>1, OrderIsComplete
  <2>4. call.depth \in 0 .. MaxDepth /\ call.depth < MaxDepth /\ call.depth + 1 \in 0 .. MaxDepth
    BY <1>2 DEF Expanded, Calls
  <2> HIDE DEF n
  <2>5. DOMAIN children = 1 .. n
    BY <2>2, <2>3
  <2>6. \A i \in 1 .. n : /\ children[i] = [need |-> order[i], depth |-> call.depth + 1]
                           /\ order[i] \in Links(call.need)
    BY <2>2, <2>3 DEF Call
  <2>7. \A i \in 1 .. n : children[i] \in Calls
    <3>1. ASSUME NEW i \in 1 .. n
          PROVE  children[i] \in Calls
      <4>1. order[i] \in Needs
        BY <2>1, <2>6
      <4>2. [need |-> order[i], depth |-> call.depth + 1] \in Calls
        BY <4>1, <2>4 DEF Calls
      <4>3. QED
        BY <4>2, <2>6
    <3>2. QED
      BY <3>1
  <2>8. children = [i \in 1 .. n |-> children[i]]
    BY <2>2, <2>3, <2>5
  <2>9. children \in Seq(Calls)
    BY <2>3, <2>7, <2>8
  <2>10. \A i \in DOMAIN children :
            children[i].depth = call.depth + 1 /\ children[i].need \in Links(call.need)
    BY <2>5, <2>6
  <2>11. \A other \in Links(call.need) : \E i \in DOMAIN children : children[i].need = other
    BY <2>3, <2>5, <2>6
  <2>12. QED
    BY <2>4, <2>9, <2>10, <2>11
<1>3. QED
  BY <1>1, <1>2

-----------------------------------------------------------------------------
(* Paths.                                                                  *)

LEMMA RootReached == Root \in Reached(0) /\ Root \in Within
<1> USE NeedsAssumption
<1>1. IsPath([i \in 0 .. 0 |-> Root], 0)
  BY DEF IsPath
<1>2. [i \in 0 .. 0 |-> Root] \in [0 .. 0 -> Needs] /\ [i \in 0 .. 0 |-> Root][0] = Root
  OBVIOUS
<1>3. Root \in Reached(0)
  BY <1>1, <1>2 DEF Reached
<1>4. QED
  BY <1>3 DEF Within

(* A link makes a path longer by one. *)
LEMMA LinkReached ==
    ASSUME NEW n \in Nat, NEW need \in Reached(n), NEW other \in Links(need)
    PROVE  other \in Reached(n + 1)
<1>1. PICK path \in [0 .. n -> Needs] : IsPath(path, n) /\ path[n] = need
  BY DEF Reached
<1> DEFINE longer == [i \in 0 .. n + 1 |-> IF i = n + 1 THEN other ELSE path[i]]
<1>2. other \in Needs /\ <<need, other>> \in links
  BY DEF Links
<1>3. longer \in [0 .. n + 1 -> Needs]
  BY <1>1, <1>2
<1>4. longer[0] = Root
  BY <1>1 DEF IsPath
<1>5. ASSUME NEW i \in 1 .. n + 1
      PROVE  <<longer[i - 1], longer[i]>> \in links
  <2>1. CASE i = n + 1
    <3>1. longer[i] = other /\ longer[i - 1] = path[n]
      BY <2>1
    <3>2. QED
      BY <3>1, <1>1, <1>2
  <2>2. CASE i # n + 1
    <3>1. i \in 1 .. n /\ longer[i] = path[i] /\ longer[i - 1] = path[i - 1]
      BY <2>2
    <3>2. QED
      BY <3>1, <1>1 DEF IsPath
  <2>3. QED
    BY <2>1, <2>2
<1>6. longer[n + 1] = other
  OBVIOUS
<1> HIDE DEF longer
<1>7. IsPath(longer, n + 1)
  BY <1>3, <1>4, <1>5 DEF IsPath
<1>8. QED
  BY <1>2, <1>3, <1>6, <1>7 DEF Reached

-----------------------------------------------------------------------------
(* The invariant.                                                          *)

LEMMA InitInv == Init => Inv
<1> USE NeedsAssumption
<1>1. <<>> \in Seq(Calls)
  OBVIOUS
<1>2. SUFFICES ASSUME Init PROVE Inv
  OBVIOUS
<1>3. TypeOK
  <2>1. directory \in BOOLEAN
    BY <1>2, Zenon DEF Init
  <2>2. /\ step = "ensure_build" /\ attempt = 1 /\ files \subseteq Documented
        /\ links = {} /\ calls = <<>> /\ visited = {} /\ ids = {}
    BY <1>2 DEF Init
  <2>3. QED
    BY <1>1, <2>1, <2>2 DEF TypeOK, BuildCommands, Calls
<1>4. Fresh /\ CallsReached /\ RootPending /\ RootListed
  BY <1>2 DEF Init, Fresh, CallsReached, RootPending, RootListed
<1>5. QED
  BY <1>3, <1>4 DEF Inv

(* The steps before the query read nothing. *)
LEMMA BuildInv == Inv /\ (ensure_build \/ RunBuild \/ BuildFails \/ NothingBuilt) => Inv'
<1> SUFFICES ASSUME Inv, ensure_build \/ RunBuild \/ BuildFails \/ NothingBuilt
             PROVE  Inv'
  OBVIOUS
<1>1. /\ UNCHANGED walk
      /\ step \in {"ensure_build", "build", "open"}
      /\ step' \in {"ensure_build", "build", "open", "failed"}
  BY DEF ensure_build, RunBuild, BuildEnds, BuildFails, NothingBuilt, walk
<1>2. links = {} /\ calls = <<>> /\ visited = {} /\ ids = {}
  BY <1>1 DEF Inv, Fresh
<1> DEFINE Built ==
        /\ directory' \in BOOLEAN /\ files' \subseteq Documented
        /\ attempt' \in 1 .. Len(BuildCommands) + 1
<1>3. Built
  <2>1. directory \in BOOLEAN /\ files \subseteq Documented
        /\ attempt \in 1 .. 3
    BY DEF Inv, TypeOK, BuildCommands
  <2>2. CASE RunBuild
    <3>1. attempt <= 2
      BY <2>2 DEF RunBuild, BuildCommands
    <3>2. CASE attempt' = attempt + 1 /\ UNCHANGED <<step, build>>
      BY <2>1, <3>1, <3>2 DEF build, BuildCommands
    <3>3. ASSUME NEW succeeds \in BOOLEAN, BuildRuns(succeeds), BuildEnds(succeeds)
          PROVE  Built
      <4>1. files' \subseteq Documented /\ directory' \in BOOLEAN
        <5>1. directory' \in BOOLEAN
          BY <3>3, Zenon DEF BuildRuns
        <5>2. QED
          BY <3>3, <5>1 DEF BuildRuns
      <4>2. CASE succeeds /\ step' = "open" /\ UNCHANGED attempt
        BY <2>1, <4>1, <4>2, <3>3 DEF BuildRuns, BuildCommands
      <4>3. CASE ~succeeds /\ attempt' = attempt + 1 /\ UNCHANGED step
        BY <2>1, <3>1, <4>1, <4>3 DEF BuildCommands
      <4>4. \/ succeeds /\ step' = "open" /\ UNCHANGED attempt
            \/ ~succeeds /\ attempt' = attempt + 1 /\ UNCHANGED step
        BY <3>3, Zenon DEF BuildEnds
      <4> HIDE DEF Built
      <4>5. QED
        BY <4>2, <4>3, <4>4, Zenon
    <3>4. \/ attempt' = attempt + 1 /\ UNCHANGED <<step, build>>
          \/ \E succeeds \in BOOLEAN : BuildRuns(succeeds) /\ BuildEnds(succeeds)
      BY <2>2 DEF RunBuild
    <3> HIDE DEF Built
    <3>5. QED
      BY <3>2, <3>3, <3>4
  <2>3. CASE ensure_build \/ BuildFails \/ NothingBuilt
    BY <2>1, <2>3 DEF ensure_build, BuildFails, NothingBuilt, build, BuildCommands
  <2>4. QED
    BY <2>2, <2>3
<1>4. links' = {} /\ calls' = <<>> /\ visited' = {} /\ ids' = {}
  BY <1>1, <1>2 DEF walk
<1>5. <<>> \in Seq(Calls)
  OBVIOUS
<1>6. TypeOK'
  BY <1>1, <1>3, <1>4, <1>5 DEF TypeOK, Calls
<1>8. Fresh' /\ CallsReached' /\ RootPending' /\ RootListed'
  BY <1>1, <1>4 DEF Fresh, CallsReached, RootPending, RootListed
<1>9. QED
  BY <1>6, <1>8 DEF Inv

LEMMA GetLinksInv == Inv /\ GetLinks => Inv'
<1> SUFFICES ASSUME Inv, GetLinks PROVE Inv'
  OBVIOUS
<1> USE NeedsAssumption
<1>1. /\ step = "open" /\ step' = "answered" /\ UNCHANGED <<attempt, directory, files, calls, visited>>
      /\ links' \subseteq files \X Needs /\ ids' = {Root} \cup Links(Root)'
  BY DEF GetLinks, build
<1>2. Links(Root)' \subseteq Needs
  BY DEF Links
<1>3. TypeOK'
  BY <1>1, <1>2 DEF Inv, TypeOK
<1>4. Fresh' /\ CallsReached' /\ RootPending' /\ RootListed'
  BY <1>1 DEF Inv, Fresh, CallsReached, RootPending, RootListed
<1>5. QED
  BY <1>3, <1>4 DEF Inv

LEMMA TraceImpactInv == Inv /\ TraceImpact => Inv'
<1> SUFFICES ASSUME Inv, TraceImpact PROVE Inv'
  OBVIOUS
<1> USE NeedsAssumption
<1>1. /\ step = "open" /\ step' = "trace"
      /\ UNCHANGED <<attempt, directory, files, visited, ids>>
      /\ links' \subseteq files \X Needs /\ calls' = <<Call(Root, 0)>>
  BY DEF TraceImpact, build
<1>2. ids = {} /\ visited = {}
  BY <1>1 DEF Inv, Fresh
<1>3. Call(Root, 0) \in Calls /\ calls' \in Seq(Calls)
  BY <1>1 DEF Call, Calls
<1>4. TypeOK'
  BY <1>1, <1>3 DEF Inv, TypeOK, Calls
<1>5. CallsReached'
  <2>1. DOMAIN calls' = {1} /\ calls'[1].need = Root /\ calls'[1].depth = 0
    BY <1>1 DEF Call
  <2>2. (Root \in Reached(0))'
    BY RootReached, PTL
  <2>3. QED
    BY <1>1, <1>2, <2>1, <2>2 DEF CallsReached
<1>6. Fresh' /\ RootPending' /\ RootListed'
  BY <1>1, <1>2 DEF Inv, Fresh, RootPending, RootListed, Call
<1>7. QED
  BY <1>4, <1>5, <1>6 DEF Inv

(* What Truncate and Trace have in common: the first call is taken. *)
LEMMA FirstCall ==
    ASSUME TypeOK, calls # <<>>
    PROVE  /\ Head(calls) \in Calls /\ Tail(calls) \in Seq(Calls)
           /\ calls \in Seq(Calls) /\ Len(calls) \in Nat \ {0} /\ Head(calls) = calls[1]
           /\ Len(Tail(calls)) = Len(calls) - 1
           /\ \A i \in DOMAIN Tail(calls) :
                 i \in Nat /\ i + 1 \in DOMAIN calls /\ Tail(calls)[i] = calls[i + 1]
           /\ \A i \in DOMAIN calls :
                 i # 1 => i - 1 \in DOMAIN Tail(calls) /\ Tail(calls)[i - 1] = calls[i]
<1>1. calls \in Seq(Calls)
  BY DEF TypeOK, Calls
<1>2. QED
  BY <1>1

LEMMA TruncateInv == Inv /\ Truncate => Inv'
<1> SUFFICES ASSUME Inv, Truncate PROVE Inv'
  OBVIOUS
<1> USE NeedsAssumption
<1>1. /\ step = "trace" /\ calls # <<>> /\ Truncated(Head(calls)) /\ calls' = Tail(calls)
      /\ UNCHANGED <<step, attempt, directory, files, links, visited, ids>>
  BY DEF Truncate, build
<1>2. TypeOK /\ CallsReached /\ RootPending
  BY DEF Inv
<1> DEFINE call == Head(calls)
<1>3. call \in Calls /\ call = calls[1] /\ Tail(calls) \in Seq(Calls)
  BY <1>1, <1>2, FirstCall
<1>4. call.need \in visited /\ visited = ids
  BY <1>1, <1>2, <1>3 DEF Truncated, Calls, RootPending
<1>5. TypeOK'
  BY <1>1, <1>2, <1>3 DEF TypeOK, Calls
<1>6. CallsReached'
  BY <1>1, <1>2, FirstCall DEF CallsReached, Reached, IsPath, Within
<1>7. RootPending'
  <2>1. ASSUME MaxDepth > 0, NEW other \in Links(Root)
        PROVE  other \in ids \/ \E i \in DOMAIN Tail(calls) : Tail(calls)[i].need = other
    <3>1. other \in ids \/ \E i \in DOMAIN calls : calls[i].need = other
      BY <1>1, <1>2, <1>4, <2>1 DEF RootPending
    <3>2. ASSUME NEW i \in DOMAIN calls, calls[i].need = other, other \notin ids
          PROVE  \E j \in DOMAIN Tail(calls) : Tail(calls)[j].need = other
      BY <1>1, <1>2, <1>3, <1>4, <3>2, FirstCall
    <3>3. QED
      BY <3>1, <3>2
  <2>2. QED
    BY <1>1, <1>4, <2>1 DEF RootPending, Links
<1>8. Fresh' /\ RootListed'
  BY <1>1 DEF Inv, Fresh, RootListed
<1>9. QED
  BY <1>5, <1>6, <1>7, <1>8 DEF Inv

LEMMA Concatenation ==
    ASSUME NEW first \in Seq(Calls), NEW rest \in Seq(Calls)
    PROVE  /\ first \o rest \in Seq(Calls)
           /\ \A i \in DOMAIN (first \o rest) :
                 \/ i \in DOMAIN first /\ (first \o rest)[i] = first[i]
                 \/ \E j \in DOMAIN rest : (first \o rest)[i] = rest[j]
           /\ \A i \in DOMAIN first : i \in DOMAIN (first \o rest) /\ (first \o rest)[i] = first[i]
           /\ \A j \in DOMAIN rest : \E i \in DOMAIN (first \o rest) : (first \o rest)[i] = rest[j]
<1>1. /\ Len(first) \in Nat /\ Len(rest) \in Nat
      /\ DOMAIN first = 1 .. Len(first) /\ DOMAIN rest = 1 .. Len(rest)
      /\ DOMAIN (first \o rest) = 1 .. Len(first) + Len(rest)
      /\ \A i \in 1 .. Len(first) + Len(rest) :
            (first \o rest)[i] = IF i <= Len(first) THEN first[i] ELSE rest[i - Len(first)]
  OBVIOUS
<1>2. first \o rest \in Seq(Calls)
  OBVIOUS
<1>3. ASSUME NEW i \in 1 .. Len(first) + Len(rest)
      PROVE  \/ i \in 1 .. Len(first) /\ (first \o rest)[i] = first[i]
             \/ \E j \in 1 .. Len(rest) : (first \o rest)[i] = rest[j]
  <2>1. CASE i <= Len(first)
    BY <1>1, <2>1
  <2>2. CASE i > Len(first)
    <3>1. i - Len(first) \in 1 .. Len(rest) /\ (first \o rest)[i] = rest[i - Len(first)]
      BY <1>1, <2>2
    <3>2. QED
      BY <3>1
  <2>3. QED
    BY <1>1, <2>1, <2>2
<1>4. ASSUME NEW j \in 1 .. Len(rest)
      PROVE  \E i \in 1 .. Len(first) + Len(rest) : (first \o rest)[i] = rest[j]
  <2>1. /\ Len(first) + j \in 1 .. Len(first) + Len(rest)
        /\ (first \o rest)[Len(first) + j] = rest[j]
    BY <1>1
  <2>2. QED
    BY <2>1
<1>5. \A i \in 1 .. Len(first) :
         i \in 1 .. Len(first) + Len(rest) /\ (first \o rest)[i] = first[i]
  BY <1>1
<1>6. QED
  BY <1>1, <1>2, <1>3, <1>4, <1>5

(* The calls that are left after an element has been visited: those for    *)
(* its links, then those that were there.                                  *)
LEMMA CallsAfterTrace ==
    ASSUME TypeOK, Trace
    PROVE  \E children \in Children(Head(calls)) :
              /\ \A i \in DOMAIN children :
                    /\ Head(calls).depth < MaxDepth
                    /\ children[i].depth = Head(calls).depth + 1
                    /\ children[i].need \in Links(Head(calls).need)
              /\ Head(calls).depth < MaxDepth =>
                    \A other \in Links(Head(calls).need) :
                        \E i \in DOMAIN children : children[i].need = other
              /\ calls' \in Seq(Calls)
              /\ \A i \in DOMAIN calls' :
                    \/ i \in DOMAIN children /\ calls'[i] = children[i]
                    \/ \E j \in DOMAIN Tail(calls) : calls'[i] = Tail(calls)[j]
              /\ \A i \in DOMAIN children : i \in DOMAIN calls' /\ calls'[i] = children[i]
              /\ \A j \in DOMAIN Tail(calls) : \E i \in DOMAIN calls' : calls'[i] = Tail(calls)[j]
<1> DEFINE call == Head(calls)
<1>1. PICK children \in Children(call) : calls' = children \o Tail(calls)
  BY DEF Trace
<1>2. call \in Calls /\ Tail(calls) \in Seq(Calls)
  BY FirstCall DEF Trace
<1>3. links \subseteq files \X Needs
  BY DEF TypeOK
<1> HIDE DEF call
<1>4. /\ children \in Seq(Calls)
      /\ \A i \in DOMAIN children :
            /\ call.depth < MaxDepth
            /\ children[i].depth = call.depth + 1
            /\ children[i].need \in Links(call.need)
      /\ call.depth < MaxDepth =>
            \A other \in Links(call.need) : \E i \in DOMAIN children : children[i].need = other
  BY <1>1, <1>2, <1>3, ChildrenOfCall
<1>5. /\ children \o Tail(calls) \in Seq(Calls)
      /\ \A i \in DOMAIN (children \o Tail(calls)) :
            \/ i \in DOMAIN children /\ (children \o Tail(calls))[i] = children[i]
            \/ \E j \in DOMAIN Tail(calls) : (children \o Tail(calls))[i] = Tail(calls)[j]
      /\ \A i \in DOMAIN children :
            i \in DOMAIN (children \o Tail(calls)) /\ (children \o Tail(calls))[i] = children[i]
      /\ \A j \in DOMAIN Tail(calls) :
            \E i \in DOMAIN (children \o Tail(calls)) : (children \o Tail(calls))[i] = Tail(calls)[j]
  BY <1>2, <1>4, Concatenation
<1>. QED BY <1>1, <1>4, <1>5 DEF call

LEMMA TraceInv == Inv /\ Trace => Inv'
<1> SUFFICES ASSUME Inv, Trace PROVE Inv'
  OBVIOUS
<1> USE NeedsAssumption
<1> DEFINE call == Head(calls)
<1>1. /\ step = "trace" /\ calls # <<>> /\ ~Truncated(call)
      /\ visited' = visited \cup {call.need} /\ ids' = ids \cup {call.need}
      /\ UNCHANGED <<step, attempt, directory, files, links>>
  BY DEF Trace, build, Entered
<1>3. TypeOK /\ CallsReached /\ RootPending
  BY DEF Inv
<1>4. /\ call \in Calls /\ call = calls[1] /\ 1 \in DOMAIN calls
      /\ Tail(calls) \in Seq(Calls)
  BY <1>1, <1>3, FirstCall
<1>5. call.need \in Needs /\ call.depth \in 0 .. MaxDepth
  BY <1>4 DEF Calls
<1>6. PICK children \in Children(Head(calls)) :
         /\ \A i \in DOMAIN children :
               /\ call.depth < MaxDepth
               /\ children[i].depth = call.depth + 1
               /\ children[i].need \in Links(call.need)
         /\ call.depth < MaxDepth =>
               \A other \in Links(call.need) : \E i \in DOMAIN children : children[i].need = other
         /\ calls' \in Seq(Calls)
         /\ \A i \in DOMAIN calls' :
               \/ i \in DOMAIN children /\ calls'[i] = children[i]
               \/ \E j \in DOMAIN Tail(calls) : calls'[i] = Tail(calls)[j]
         /\ \A i \in DOMAIN children : i \in DOMAIN calls' /\ calls'[i] = children[i]
         /\ \A j \in DOMAIN Tail(calls) : \E i \in DOMAIN calls' : calls'[i] = Tail(calls)[j]
  BY <1>3, CallsAfterTrace
<1> HIDE DEF call
<1>7. TypeOK'
  <2>1. calls' \in Seq(Calls)
    BY <1>6
  <2>2. QED
    BY <1>1, <1>3, <1>5, <2>1 DEF TypeOK, Calls
<1>8. CallsReached'
  <2>1. call.need \in Reached(call.depth)
    BY <1>1, <1>3, <1>4 DEF CallsReached
  <2>2. \A i \in DOMAIN children : children[i].need \in Reached(children[i].depth)
    BY <1>5, <1>6, <2>1, LinkReached
  <2>3. \A j \in DOMAIN Tail(calls) : Tail(calls)[j].need \in Reached(Tail(calls)[j].depth)
    BY <1>1, <1>3, FirstCall DEF CallsReached
  <2>4. \A i \in DOMAIN calls' : calls'[i].need \in Reached(calls'[i].depth)
    BY <1>6, <2>2, <2>3
  <2>5. call.need \in Within
    BY <1>5, <2>1 DEF Within
  <2>6. ids' \subseteq Within
    BY <1>1, <1>3, <2>5 DEF CallsReached
  <2>7. Within' = Within /\ \A n : Reached(n)' = Reached(n)
    BY <1>1 DEF Within, Reached, IsPath
  <2>8. \A i \in DOMAIN calls' : (calls[i].need \in Reached(calls[i].depth))'
    BY <1>1, <2>4 DEF Reached, IsPath
  <2>9. QED
    BY <2>6, <2>7, <2>8 DEF CallsReached
<1>9. RootPending'
  <2>1. ASSUME MaxDepth > 0, NEW other \in Links(Root)
        PROVE  other \in ids' \/ \E i \in DOMAIN calls' : calls'[i].need = other
    <3>1. CASE calls = <<Call(Root, 0)>>
      <4>1. call.need = Root /\ call.depth = 0
        BY <1>4, <3>1 DEF Call
      <4>2. PICK i \in DOMAIN children : children[i].need = other
        BY <1>6, <2>1, <4>1
      <4>3. QED
        BY <1>6, <4>2
    <3>2. CASE other \in ids
      BY <1>1, <3>2
    <3>3. ASSUME NEW i \in DOMAIN calls, calls[i].need = other
          PROVE  other \in ids' \/ \E k \in DOMAIN calls' : calls'[k].need = other
      <4>1. CASE i = 1
        BY <1>1, <1>4, <3>3, <4>1
      <4>2. CASE i # 1
        <5>1. PICK j \in DOMAIN Tail(calls) : Tail(calls)[j].need = other
          BY <1>1, <1>3, <3>3, <4>2, FirstCall
        <5>2. QED
          BY <1>6, <5>1
      <4>3. QED
        BY <4>1, <4>2
    <3>4. \/ calls = <<Call(Root, 0)>>
          \/ other \in ids
          \/ \E i \in DOMAIN calls : calls[i].need = other
      BY <1>1, <1>3, <2>1 DEF RootPending
    <3>5. QED
      BY <3>1, <3>2, <3>3, <3>4
  <2>2. visited' = ids'
    BY <1>1, <1>3 DEF RootPending
  <2>3. Links(Root)' = Links(Root)
    BY <1>1 DEF Links
  <2>4. QED
    BY <2>1, <2>2, <2>3 DEF RootPending
<1>10. Fresh' /\ RootListed'
  BY <1>1 DEF Inv, Fresh, RootListed
<1>11. QED
  BY <1>7, <1>8, <1>9, <1>10 DEF Inv

LEMMA TraceEndsInv == Inv /\ TraceEnds => Inv'
<1> SUFFICES ASSUME Inv, TraceEnds PROVE Inv'
  OBVIOUS
<1> USE NeedsAssumption
<1>1. /\ step = "trace" /\ calls = <<>> /\ step' = "answered"
      /\ UNCHANGED <<attempt, directory, files, links, calls, visited, ids>>
  BY DEF TraceEnds, build, walk
<1>2. TypeOK' /\ Fresh' /\ CallsReached' /\ RootPending'
  BY <1>1 DEF Inv, TypeOK, Fresh, CallsReached, RootPending
<1>3. RootListed'
  <2>1. calls # <<Call(Root, 0)>> /\ DOMAIN calls = {}
    BY <1>1
  <2>2. MaxDepth > 0 => Links(Root) \subseteq ids
    BY <1>1, <2>1 DEF Inv, RootPending
  <2>3. QED
    BY <1>1, <2>2 DEF RootListed, Links
<1>4. QED
  BY <1>2, <1>3 DEF Inv

(* The inductive invariant of an invocation, for any build, links, depth.  *)
THEOREM Invariant == Spec => []Inv
<1>1. Init => Inv
  BY InitInv
<1>2. Inv /\ [Next]_vars => Inv'
  <2> SUFFICES ASSUME Inv, [Next]_vars PROVE Inv'
    OBVIOUS
  <2>1. CASE ensure_build \/ RunBuild \/ BuildFails \/ NothingBuilt
    BY <2>1, BuildInv
  <2>2. CASE GetLinks
    BY <2>2, GetLinksInv
  <2>3. CASE TraceImpact
    BY <2>3, TraceImpactInv
  <2>4. CASE Truncate
    BY <2>4, TruncateInv
  <2>5. CASE Trace
    BY <2>5, TraceInv
  <2>6. CASE TraceEnds
    BY <2>6, TraceEndsInv
  <2>7. CASE UNCHANGED vars
    BY <2>7 DEF vars, build, walk, Inv, TypeOK, Fresh, CallsReached, RootPending, RootListed,
                Reached, IsPath, Within, Links
  <2>8. QED
    BY <2>1, <2>2, <2>3, <2>4, <2>5, <2>6, <2>7 DEF Next
<1>3. QED
  BY <1>1, <1>2, PTL DEF Spec

(* Type correctness of an invocation of get_need_links.py. *)
THEOREM TypeCorrect == Spec => []TypeOK
<1>1. Inv => TypeOK
  BY DEF Inv
<1>2. QED
  BY <1>1, Invariant, PTL

(* Nothing is listed that no path of at most MaxDepth links leads to. *)
THEOREM NothingBeyondDepth == Spec => []OnlyWithinDepth
<1>1. Inv => OnlyWithinDepth
  BY DEF Inv, CallsReached, OnlyWithinDepth, get_all_linked_ids
<1>2. QED
  BY <1>1, Invariant, PTL

(* Every direct link is listed, whatever order the walk takes. *)
THEOREM DirectLinksAlwaysListed == Spec => []DirectLinksListed
<1>1. Inv => DirectLinksListed
  BY DEF Inv, RootListed, DirectLinksListed
<1>2. QED
  BY <1>1, Invariant, PTL

-----------------------------------------------------------------------------
(* What the shared set of visited elements may cost.                       *)

(* The element is visited, or a call for it is still to come. *)
Pending(need) == need \in visited \/ \E i \in DOMAIN calls : calls[i].need = need

(* A visited element whose links are not followed is at the depth limit. *)
UnexpandedAtLimit ==
    step = "trace" =>
        /\ Pending(Root)
        /\ \A need \in visited \ Reached(MaxDepth) : \A other \in Links(need) : Pending(other)

(* A call that is executed is removed when its element is visited. *)
LEMMA PendingStays ==
    ASSUME Inv, Truncate \/ Trace, NEW need, Pending(need)
    PROVE  Pending(need)'
<1> DEFINE call == Head(calls)
<1>1. TypeOK /\ calls # <<>>
  BY DEF Inv, Truncate, Trace
<1>2. call \in Calls /\ call = calls[1]
  BY <1>1, FirstCall
<1>3. /\ visited \subseteq visited' /\ call.need \in visited'
      /\ \A j \in DOMAIN Tail(calls) : \E i \in DOMAIN calls' : calls'[i] = Tail(calls)[j]
  <2>1. CASE Truncate
    <3>1. call.need \in visited
      BY <1>2, <2>1, NeedsAssumption DEF Truncate, Truncated, Calls
    <3>. QED BY <2>1, <3>1 DEF Truncate
  <2>2. CASE Trace
    <3>1. visited' = visited \cup {call.need}
      BY <2>2 DEF Trace, Entered
    <3>. QED BY <1>1, <2>2, <3>1, CallsAfterTrace
  <2>. QED BY <2>1, <2>2
<1>4. ASSUME NEW i \in DOMAIN calls, calls[i].need = need, i # 1
      PROVE  \E j \in DOMAIN Tail(calls) : Tail(calls)[j].need = need
  BY <1>1, <1>4, FirstCall
<1> HIDE DEF call
<1>. QED BY <1>2, <1>3, <1>4 DEF Pending

LEMMA TraceLimit == Inv /\ UnexpandedAtLimit /\ Trace => UnexpandedAtLimit'
<1> SUFFICES ASSUME Inv, UnexpandedAtLimit, Trace PROVE UnexpandedAtLimit'
  OBVIOUS
<1> DEFINE call == Head(calls)
<1>1. /\ step = "trace" /\ calls # <<>>
      /\ visited' = visited \cup {call.need} /\ UNCHANGED <<step, links>>
  BY DEF Trace, Entered
<1>2. TypeOK /\ CallsReached
  BY DEF Inv
<1>3. call \in Calls /\ call = calls[1] /\ 1 \in DOMAIN calls
  BY <1>1, <1>2, FirstCall
<1>4. PICK children \in Children(call) :
         /\ call.depth < MaxDepth =>
               \A other \in Links(call.need) : \E i \in DOMAIN children : children[i].need = other
         /\ \A i \in DOMAIN children : i \in DOMAIN calls' /\ calls'[i] = children[i]
  BY <1>1, <1>2, CallsAfterTrace
<1>5. call.need \in Reached(call.depth) /\ call.depth \in 0 .. MaxDepth
  BY <1>1, <1>2, <1>3 DEF CallsReached, Calls
<1> HIDE DEF call
<1>6. call.need \notin Reached(MaxDepth) => call.depth < MaxDepth
  BY <1>5, NeedsAssumption
<1>7. Reached(MaxDepth)' = Reached(MaxDepth) /\ \A need : Links(need)' = Links(need)
  BY <1>1 DEF Reached, IsPath, Links
<1>8. Pending(Root)'
  BY <1>1, PendingStays DEF UnexpandedAtLimit
<1>9. ASSUME NEW need \in visited' \ Reached(MaxDepth), NEW other \in Links(need) PROVE Pending(other)'
  <2>1. CASE need \in visited
    BY <1>1, <1>9, <2>1, PendingStays DEF UnexpandedAtLimit
  <2>2. CASE need = call.need
    BY <1>4, <1>6, <1>9, <2>2 DEF Pending
  <2>. QED BY <1>1, <2>1, <2>2
<1>. QED BY <1>7, <1>8, <1>9 DEF UnexpandedAtLimit

(* An element of the walk that is not expanded is at the depth limit. *)
THEOREM LimitInvariant == Spec => [](Inv /\ UnexpandedAtLimit)
<1>1. Init => UnexpandedAtLimit
  BY DEF Init, UnexpandedAtLimit
<1>2. Inv /\ UnexpandedAtLimit /\ [Next]_vars => UnexpandedAtLimit'
  <2> SUFFICES ASSUME Inv, UnexpandedAtLimit, [Next]_vars PROVE UnexpandedAtLimit'
    OBVIOUS
  <2>1. CASE Truncate
    <3>1. /\ step = "trace" /\ visited' = visited /\ links' = links
      BY <2>1 DEF Truncate
    <3>2. Reached(MaxDepth)' = Reached(MaxDepth) /\ \A need : Links(need)' = Links(need)
      BY <3>1 DEF Reached, IsPath, Links
    <3>. QED BY <2>1, <3>1, <3>2, PendingStays DEF UnexpandedAtLimit
  <2>2. CASE Trace
    BY <2>2, TraceLimit
  <2>3. CASE TraceImpact
    <3>1. calls' = <<Call(Root, 0)>> /\ visited' = {}
      BY <2>3 DEF TraceImpact, Inv, Fresh
    <3>2. 1 \in DOMAIN calls' /\ calls'[1].need = Root
      BY <3>1 DEF Call
    <3>. QED BY <3>1, <3>2 DEF UnexpandedAtLimit, Pending
  <2>4. CASE ensure_build \/ RunBuild \/ BuildFails \/ NothingBuilt \/ GetLinks \/ TraceEnds
    BY <2>4 DEF ensure_build, RunBuild, BuildEnds, BuildFails, NothingBuilt, GetLinks, TraceEnds, build,
                UnexpandedAtLimit
  <2>5. CASE UNCHANGED vars
    BY <2>5 DEF vars, build, walk, UnexpandedAtLimit, Pending, Links, Reached, IsPath
  <2>. QED BY <2>1, <2>2, <2>3, <2>4, <2>5 DEF Next
<1>. QED BY <1>1, <1>2, Invariant, PTL DEF Spec

(* The beginning of a path is a path. *)
LEMMA PathPrefix ==
    ASSUME NEW n \in Nat, NEW path, IsPath(path, n), NEW m \in 0 .. n
    PROVE  path[m] \in Reached(m)
<1> DEFINE first == [i \in 0 .. m |-> path[i]]
<1>1. path \in [0 .. n -> Needs] /\ path[0] = Root /\ \A i \in 1 .. n : <<path[i - 1], path[i]>> \in links
  BY DEF IsPath
<1>2. first \in [0 .. m -> Needs] /\ first[0] = Root /\ first[m] = path[m]
  BY <1>1
<1>3. ASSUME NEW i \in 1 .. m PROVE <<first[i - 1], first[i]>> \in links
  <2>1. i \in 1 .. n /\ i - 1 \in 0 .. m /\ i \in 0 .. m
    OBVIOUS
  <2>. QED BY <1>1, <2>1
<1>4. path[m] \in Needs
  BY <1>1
<1> HIDE DEF first
<1>5. IsPath(first, m)
  BY <1>2, <1>3 DEF IsPath
<1>. QED BY <1>2, <1>4, <1>5 DEF Reached

(* When no call is left, a path stays within the visited elements unless   *)
(* it passes one at the depth limit too early.                             *)
LEMMA UnambiguousPathsVisited ==
    ASSUME Inv, UnexpandedAtLimit, step = "trace", calls = <<>>,
           \A n \in 0 .. MaxDepth - 1 : Reached(n) \cap Reached(MaxDepth) = {},
           NEW n \in 0 .. MaxDepth, NEW path, IsPath(path, n)
    PROVE  path[n] \in visited
<1> DEFINE S == {m \in Nat : m <= n => path[m] \in visited}
<1>1. /\ Root \in visited
      /\ \A need \in visited \ Reached(MaxDepth) : \A other \in Links(need) : other \in visited
  BY DEF UnexpandedAtLimit, Pending
<1>2. 0 \in S
  BY <1>1 DEF IsPath
<1>3. ASSUME NEW m \in Nat, m \in S PROVE m + 1 \in S
  <2>1. SUFFICES ASSUME m + 1 <= n PROVE path[m + 1] \in visited
    OBVIOUS
  <2>2. /\ path[m] \in visited /\ m + 1 \in 1 .. n /\ (m + 1) - 1 = m
        /\ n \in Nat /\ m \in 0 .. n /\ m \in 0 .. MaxDepth - 1
    BY <1>3, <2>1, NeedsAssumption
  <2>3. <<path[m], path[m + 1]>> \in links /\ path[m + 1] \in Needs
    BY <2>2 DEF IsPath
  <2>4. path[m] \notin Reached(MaxDepth)
    BY <2>2, PathPrefix
  <2>. QED BY <1>1, <2>2, <2>3, <2>4 DEF Links
<1>4. Nat \subseteq S
  <2> HIDE DEF S
  <2>. QED BY <1>2, <1>3, Induction
<1>5. n \in Nat
  BY NeedsAssumption
<1>. QED BY <1>4, <1>5

(* The flat list lacks an element within the depth only if an element at   *)
(* the depth limit has a shorter path as well: see CompleteUnlessAmbiguous. *)
THEOREM OnlyAmbiguityLoses == Spec => []CompleteUnlessAmbiguous
<1>1. Inv /\ UnexpandedAtLimit => CompleteUnlessAmbiguous
  <2> SUFFICES ASSUME Inv, UnexpandedAtLimit, step = "trace", calls = <<>>,
                      \A n \in 0 .. MaxDepth - 1 : Reached(n) \cap Reached(MaxDepth) = {},
                      NEW need \in Within
               PROVE  need \in ids \cup {Root}
    BY DEF CompleteUnlessAmbiguous, AllWithinDepth
  <2>1. PICK n \in 0 .. MaxDepth : need \in Reached(n)
    BY DEF Within
  <2>2. PICK path \in [0 .. n -> Needs] : IsPath(path, n) /\ path[n] = need
    BY <2>1 DEF Reached
  <2>3. need \in visited
    BY <2>1, <2>2, UnambiguousPathsVisited
  <2>4. visited = ids
    BY DEF Inv, RootPending
  <2>. QED BY <2>3, <2>4
<1>. QED BY <1>1, LimitInvariant, PTL

-----------------------------------------------------------------------------
(* Completeness of the flat list when the depth is large enough.           *)

DeepEnough == Cardinality(files) <= MaxDepth

(* A call is at most as deep as there are visited elements with a file:    *)
(* each of its ancestors is one.                                           *)
NoDeeper ==
    step = "trace" => \A i \in DOMAIN calls : calls[i].depth <= Cardinality(visited \cap files)

(* So no visited element with a file was too deep to be expanded.          *)
AllExpanded ==
    step = "trace" /\ DeepEnough =>
        Pending(Root) /\ \A need \in visited : \A other \in Links(need) : Pending(other)

DeepInv == Inv /\ NoDeeper /\ AllExpanded

LEMMA VisitedFinite ==
    ASSUME TypeOK
    PROVE  /\ IsFiniteSet(files) /\ IsFiniteSet(visited \cap files)
           /\ Cardinality(files) \in Nat /\ Cardinality(visited \cap files) \in Nat
<1>1. IsFiniteSet(files) /\ visited \cap files \subseteq files
  BY NeedsAssumption, FS_Subset DEF Documented, TypeOK
<1>2. IsFiniteSet(visited \cap files)
  BY <1>1, FS_Subset
<1>. QED BY <1>1, <1>2, FS_CardinalityType

LEMMA TruncateDeep == DeepInv /\ Truncate => NoDeeper' /\ AllExpanded'
<1> SUFFICES ASSUME DeepInv, Truncate PROVE NoDeeper' /\ AllExpanded'
  OBVIOUS
<1>1. /\ step = "trace" /\ calls # <<>> /\ calls' = Tail(calls)
      /\ visited' = visited /\ files' = files /\ links' = links
  BY DEF Truncate, build
<1>2. NoDeeper'
  BY <1>1, FirstCall DEF DeepInv, Inv, NoDeeper
<1>3. AllExpanded'
  BY <1>1, PendingStays DEF DeepInv, AllExpanded, Links, DeepEnough
<1>. QED BY <1>2, <1>3

LEMMA TraceDeep == DeepInv /\ Trace => NoDeeper' /\ AllExpanded'
<1> SUFFICES ASSUME DeepInv, Trace PROVE NoDeeper' /\ AllExpanded'
  OBVIOUS
<1> DEFINE call == Head(calls)
           old == visited \cap files
           now == visited' \cap files
<1>1. /\ step = "trace" /\ calls # <<>> /\ ~Truncated(call)
      /\ visited' = visited \cup {call.need} /\ UNCHANGED <<step, files, links>>
  BY DEF Trace, build, Entered
<1>2. Inv /\ TypeOK /\ NoDeeper /\ AllExpanded
  BY DEF DeepInv, Inv
<1>3. call \in Calls /\ call = calls[1] /\ 1 \in DOMAIN calls
  BY <1>1, <1>2, FirstCall
<1>4. call.need \in Needs /\ call.need \notin visited /\ call.depth \in 0 .. MaxDepth
  BY <1>1, <1>3 DEF Calls, Truncated
<1>5. PICK children \in Children(call) :
         /\ \A i \in DOMAIN children :
               /\ call.depth < MaxDepth
               /\ children[i].depth = call.depth + 1
               /\ children[i].need \in Links(call.need)
         /\ call.depth < MaxDepth =>
               \A other \in Links(call.need) : \E i \in DOMAIN children : children[i].need = other
         /\ calls' \in Seq(Calls)
         /\ \A i \in DOMAIN calls' :
               \/ i \in DOMAIN children /\ calls'[i] = children[i]
               \/ \E j \in DOMAIN Tail(calls) : calls'[i] = Tail(calls)[j]
         /\ \A i \in DOMAIN children : i \in DOMAIN calls' /\ calls'[i] = children[i]
         /\ \A j \in DOMAIN Tail(calls) : \E i \in DOMAIN calls' : calls'[i] = Tail(calls)[j]
  BY <1>2, CallsAfterTrace
<1>6. IsFiniteSet(old) /\ Cardinality(old) \in Nat /\ call.depth <= Cardinality(old)
  BY <1>1, <1>2, <1>3, VisitedFinite DEF NoDeeper
<1>7. call.need \in files => IsFiniteSet(now) /\ Cardinality(now) = Cardinality(old) + 1
  <2>1. SUFFICES ASSUME call.need \in files PROVE IsFiniteSet(now) /\ Cardinality(now) = Cardinality(old) + 1
    OBVIOUS
  <2>2. now = old \cup {call.need} /\ call.need \notin old
    BY <1>1, <1>4, <2>1
  <2> HIDE DEF old, now
  <2>. QED BY <1>6, <2>2, FS_AddElement
<1>8. call.need \notin files => now = old
  BY <1>1
<1>9. links \subseteq files \X Needs
  BY <1>2 DEF TypeOK
<1> HIDE DEF call
<1>10. NoDeeper'
  <2>1. Cardinality(now) \in Nat /\ Cardinality(old) <= Cardinality(now)
    <3> HIDE DEF old, now
    <3>. QED BY <1>6, <1>7, <1>8
  <2>2. ASSUME NEW i \in DOMAIN children PROVE children[i].depth <= Cardinality(now)
    <3>1. call.need \in files
      BY <1>5, <1>9 DEF Links
    <3> HIDE DEF old, now
    <3>. QED BY <1>4, <1>5, <1>6, <1>7, <3>1
  <2>3. ASSUME NEW j \in DOMAIN Tail(calls) PROVE Tail(calls)[j].depth <= Cardinality(now)
    <3>1. PICK i \in DOMAIN calls : Tail(calls)[j] = calls[i]
      BY <1>1, <1>2, FirstCall
    <3>2. calls[i].depth <= Cardinality(old)
      BY <1>1, <1>2 DEF NoDeeper
    <3>3. calls[i] \in Calls
      BY <1>1, <1>2, FirstCall
    <3>4. calls[i].depth \in Nat
      BY <3>3, NeedsAssumption DEF Calls
    <3> HIDE DEF old, now
    <3>. QED BY <1>6, <2>1, <3>1, <3>2, <3>4
  <2>4. \A i \in DOMAIN calls' : calls'[i].depth <= Cardinality(now)
    <3> HIDE DEF now
    <3>. QED BY <1>5, <2>2, <2>3
  <2>. QED BY <1>1, <2>4 DEF NoDeeper
<1>11. AllExpanded'
  <2>1. SUFFICES ASSUME DeepEnough
                 PROVE  Pending(Root)' /\ \A need \in visited' : \A other \in Links(need) : Pending(other)'
    BY <1>1 DEF AllExpanded, DeepEnough, Links
  <2>2. Pending(Root)'
    BY <1>1, <1>2, <2>1, PendingStays DEF AllExpanded
  <2>3. ASSUME NEW need \in visited, NEW other \in Links(need) PROVE Pending(other)'
    BY <1>1, <1>2, <2>1, <2>3, PendingStays DEF AllExpanded
  <2>4. ASSUME NEW other \in Links(call.need) PROVE Pending(other)'
    <3>1. call.need \in files
      BY <1>9 DEF Links
    <3>2. IsFiniteSet(files) /\ Cardinality(files) \in Nat /\ now \in SUBSET files
      BY <1>2, VisitedFinite
    <3>3. Cardinality(now) <= Cardinality(files)
      <4> HIDE DEF now
      <4>. QED BY <3>2, FS_Subset
    <3>4. call.depth < MaxDepth
      <4> HIDE DEF old, now
      <4>. QED BY <1>4, <1>6, <1>7, <2>1, <3>1, <3>2, <3>3, NeedsAssumption DEF DeepEnough
    <3>. QED BY <1>5, <3>4 DEF Pending
  <2>. QED BY <1>1, <2>2, <2>3, <2>4
<1>. QED BY <1>10, <1>11

(* The inductive invariant of a walk that is deep enough. *)
THEOREM DeepInvariant == Spec => []DeepInv
<1>1. Init => NoDeeper /\ AllExpanded
  BY DEF Init, NoDeeper, AllExpanded
<1>2. DeepInv /\ [Next]_vars => NoDeeper' /\ AllExpanded'
  <2> SUFFICES ASSUME DeepInv, [Next]_vars PROVE NoDeeper' /\ AllExpanded'
    OBVIOUS
  <2>1. CASE Truncate
    BY <2>1, TruncateDeep
  <2>2. CASE Trace
    BY <2>2, TraceDeep
  <2>3. CASE TraceImpact
    <3>1. step = "open" /\ calls' = <<Call(Root, 0)>> /\ visited' = {} /\ IsFiniteSet({})
      BY <2>3, FS_EmptySet DEF TraceImpact, DeepInv, Inv, Fresh
    <3>2. DOMAIN calls' = {1} /\ calls'[1].need = Root /\ calls'[1].depth = 0
      BY <3>1 DEF Call
    <3>3. visited' \cap files' = {}
      BY <3>1
    <3>. QED BY <3>1, <3>2, <3>3, FS_EmptySet DEF NoDeeper, AllExpanded, Pending
  <2>4. CASE ensure_build \/ RunBuild \/ BuildFails \/ NothingBuilt \/ GetLinks \/ TraceEnds
    BY <2>4 DEF ensure_build, RunBuild, BuildEnds, BuildFails, NothingBuilt, GetLinks, TraceEnds,
                NoDeeper, AllExpanded
  <2>5. CASE UNCHANGED vars
    BY <2>5 DEF vars, build, walk, DeepInv, NoDeeper, AllExpanded, Pending, Links, DeepEnough
  <2>. QED BY <2>1, <2>2, <2>3, <2>4, <2>5 DEF Next
<1>. QED BY <1>1, <1>2, Invariant, PTL DEF Spec, DeepInv

(* When no call is left, a path never leads out of the visited elements. *)
LEMMA PathsVisited ==
    ASSUME DeepInv, step = "trace", calls = <<>>, DeepEnough, NEW n \in Nat, NEW path, IsPath(path, n)
    PROVE  path[n] \in visited
<1> DEFINE S == {m \in Nat : m <= n => path[m] \in visited}
<1>1. Root \in visited /\ \A need \in visited : \A other \in Links(need) : other \in visited
  BY DEF DeepInv, AllExpanded, Pending
<1>2. 0 \in S
  BY <1>1 DEF IsPath
<1>3. ASSUME NEW m \in Nat, m \in S PROVE m + 1 \in S
  <2>1. SUFFICES ASSUME m + 1 <= n PROVE path[m + 1] \in visited
    OBVIOUS
  <2>2. path[m] \in visited /\ m + 1 \in 1 .. n /\ (m + 1) - 1 = m
    BY <1>3, <2>1
  <2>3. <<path[m], path[m + 1]>> \in links
    BY <2>2 DEF IsPath
  <2>4. path[m + 1] \in Needs
    BY <2>2 DEF IsPath
  <2>. QED BY <1>1, <2>2, <2>3, <2>4 DEF Links
<1>4. Nat \subseteq S
  <2> HIDE DEF S
  <2>. QED BY <1>2, <1>3, Induction
<1>. QED BY <1>4

(* With a depth of at least the number of elements in the build the list   *)
(* of get_all_linked_ids() is complete, for every graph of links and every *)
(* order of the walk: see CompleteIfDeepEnough.                            *)
THEOREM DeepWalkComplete == Spec => []CompleteIfDeepEnough
<1>1. DeepInv => CompleteIfDeepEnough
  <2> SUFFICES ASSUME DeepInv, DeepEnough, step = "trace", calls = <<>>, NEW need \in Within
               PROVE  need \in ids \cup {Root}
    BY DEF CompleteIfDeepEnough, AllWithinDepth, DeepEnough
  <2>1. PICK n \in 0 .. MaxDepth : need \in Reached(n)
    BY DEF Within
  <2>2. PICK path \in [0 .. n -> Needs] : IsPath(path, n) /\ path[n] = need
    BY <2>1 DEF Reached
  <2>3. need \in visited
    BY <2>1, <2>2, PathsVisited
  <2>4. visited = ids
    BY DEF DeepInv, Inv, RootPending
  <2>. QED BY <2>3, <2>4
<1>. QED BY <1>1, DeepInvariant, PTL
=============================================================================
