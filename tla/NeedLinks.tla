----------------------------- MODULE NeedLinks -----------------------------
(***************************************************************************)
(* get_need_links.py: it builds the documentation unless a build is there, *)
(* then answers one query from the files of the build, with the direct     *)
(* links of an element (get_links()) or with its impact trace.  The trace  *)
(* is a depth-first walk over the links of the Sphinx-Needs elements, with *)
(* a limit on the depth and one set of visited elements, and the flat list *)
(* of what it found.                                                       *)
(*                                                                         *)
(* The recursion of trace() is a stack of the calls to come.  The links of *)
(* an element are a list in the code; the model takes them in any order.   *)
(* External: sphinx-build, which may not be there, may succeed, or may     *)
(* fail and leave some of its files behind.                                *)
(***************************************************************************)
EXTENDS Naturals, Sequences, FiniteSets, SequencesExt

CONSTANTS
    Needs,      \* element identifiers
    Missing,    \* those that are linked to but that no document defines
    Root,       \* need_id
    MaxDepth    \* depth

ASSUME NeedsAssumption ==
    IsFiniteSet(Needs) /\ Root \in Needs /\ Missing \subseteq Needs /\ MaxDepth \in Nat

Documented == Needs \ Missing

BuildCommands == <<"uv run sphinx-build", "sphinx-build">>

VARIABLES
    step,       \* what main() does next
    attempt,    \* the build command that runs next
    directory,  \* needs_id exists
    files,      \* elements that have a file in it
    links,      \* the links in those files, both fields of the code as one relation
    calls,      \* calls of trace() to come, the next one first
    visited,    \* elements that have been entered
    ids         \* elements in the result that are not truncated

build == <<directory, files>>
walk == <<links, calls, visited, ids>>
vars == <<step, attempt, build, walk>>

Call(need, depth) == [need |-> need, depth |-> depth]

(* What an earlier build has left, which may have been interrupted or may  *)
(* be older than some of the documents.                                    *)
Init ==
    /\ step = "ensure_build" /\ attempt = 1
    /\ files \in SUBSET Documented
    /\ directory \in {files # {}, TRUE}
    /\ links = {} /\ calls = <<>> /\ visited = {} /\ ids = {}

-----------------------------------------------------------------------------
(* The build.                                                              *)

ensure_build ==
    /\ step = "ensure_build"
    /\ step' = IF files # {} THEN "open" ELSE "build"
    /\ UNCHANGED <<attempt, build, walk>>

(* The outcomes of one build command: exit status 0, another one, or no    *)
(* such program.                                                           *)
BuildRuns(succeeds) ==
    /\ files' \in IF succeeds THEN {Documented} ELSE SUBSET Documented
    /\ directory' \in {files' # {}, TRUE}

(* Only exit status 0 ends the loop over the build commands. *)
BuildEnds(succeeds) ==
    \/ succeeds /\ step' = "open" /\ UNCHANGED attempt
    \/ ~succeeds /\ attempt' = attempt + 1 /\ UNCHANGED step

RunBuild ==
    /\ step = "build" /\ attempt <= Len(BuildCommands)
    /\ \/ \E succeeds \in BOOLEAN : BuildRuns(succeeds) /\ BuildEnds(succeeds)
       \/ attempt' = attempt + 1 /\ UNCHANGED <<step, build>>
    /\ UNCHANGED walk

(* ensure_build() has failed, which main() does not notice. *)
BuildFails ==
    /\ step = "build" /\ attempt > Len(BuildCommands)
    /\ step' = "open"
    /\ UNCHANGED <<attempt, build, walk>>

(* "needs_id directory not found after build" *)
NothingBuilt ==
    /\ step = "open" /\ ~directory
    /\ step' = "failed"
    /\ UNCHANGED <<attempt, build, walk>>

-----------------------------------------------------------------------------
(* The query.  Only elements with a file have links that can be read.      *)

Links(need) == {other \in Needs : <<need, other>> \in links}

(* get_links(): the answer is an error if the element is not found. *)
GetLinks ==
    /\ step = "open" /\ directory
    /\ links' \in SUBSET (files \X Needs)
    /\ ids' = {Root} \cup Links(Root)'
    /\ step' = "answered"
    /\ UNCHANGED <<attempt, build, calls, visited>>

TraceImpact ==
    /\ step = "open" /\ directory
    /\ links' \in SUBSET (files \X Needs)
    /\ calls' = <<Call(Root, 0)>>
    /\ step' = "trace"
    /\ UNCHANGED <<attempt, build, visited, ids>>

(* The first test of trace(). *)
Truncated(call) == call.depth > MaxDepth \/ call.need \in visited

(* Mutant: elements at the last level are expanded as well. *)
ExpandedTooFar(call) == call.need \in files

(* Mutant: the last level is missed by one. *)
ExpandedTooShort(call) == call.need \in files /\ call.depth + 1 < MaxDepth

(* Only an element that is found and above the last level has children. *)
Expanded(call) == call.need \in files /\ call.depth < MaxDepth

(* Mutant: the recursive calls do not count the level. *)
ChildrenSameDepth(call) ==
    IF Expanded(call)
    THEN {[i \in DOMAIN order |-> Call(order[i], call.depth)] :
              order \in SetToSeqs(Links(call.need))}
    ELSE {<<>>}

(* The recursive calls a call makes, in the order of its links. *)
Children(call) ==
    IF Expanded(call)
    THEN {[i \in DOMAIN order |-> Call(order[i], call.depth + 1)] :
              order \in SetToSeqs(Links(call.need))}
    ELSE {<<>>}

(* Mutant: the children count as visited when their parent is entered. *)
EnteredWithLinks(call) == {call.need} \cup Links(call.need)

Entered(call) == {call.need}

(* A call that returns at once. *)
Truncate ==
    /\ step = "trace" /\ calls # <<>> /\ Truncated(Head(calls))
    /\ calls' = Tail(calls)
    /\ UNCHANGED <<step, attempt, build, links, visited, ids>>

(* A call that visits its element; extract_ids() lists it, and also the    *)
(* identifier of an element that is "not found".                           *)
Trace ==
    /\ step = "trace" /\ calls # <<>> /\ ~Truncated(Head(calls))
    /\ visited' = visited \cup Entered(Head(calls))
    /\ ids' = ids \cup {Head(calls).need}
    /\ \E children \in Children(Head(calls)) : calls' = children \o Tail(calls)
    /\ UNCHANGED <<step, attempt, build, links>>

TraceEnds ==
    /\ step = "trace" /\ calls = <<>>
    /\ step' = "answered"
    /\ UNCHANGED <<attempt, build, walk>>

Next ==
    \/ ensure_build \/ RunBuild \/ BuildFails \/ NothingBuilt
    \/ GetLinks \/ TraceImpact
    \/ Truncate \/ Trace \/ TraceEnds

Spec == Init /\ [][Next]_vars

(* The starting point is not part of the list. *)
get_all_linked_ids == ids \ {Root}

-----------------------------------------------------------------------------
(* Properties.                                                             *)

TypeOK ==
    /\ step \in {"ensure_build", "build", "open", "trace", "answered", "failed"}
    /\ attempt \in 1 .. Len(BuildCommands) + 1
    /\ directory \in BOOLEAN
    /\ files \subseteq Documented /\ links \subseteq files \X Needs
    /\ calls \in Seq([need : Needs, depth : 0 .. MaxDepth])
    /\ visited \subseteq Needs /\ ids \subseteq Needs

(* The elements a path of n links leads to, and those within the depth.    *)
IsPath(path, n) ==
    /\ path \in [0 .. n -> Needs]
    /\ path[0] = Root
    /\ \A i \in 1 .. n : <<path[i - 1], path[i]>> \in links

Reached(n) == {need \in Needs : \E path \in [0 .. n -> Needs] : IsPath(path, n) /\ path[n] = need}

Within == UNION {Reached(n) : n \in 0 .. MaxDepth}

(* Nothing is listed that is not linked within the depth, in spite of      *)
(* cycles and of the order in which shared elements are reached.           *)
OnlyWithinDepth == step = "trace" => get_all_linked_ids \subseteq Within

(* A direct link is never lost, whatever longer paths lead to the same     *)
(* element first: the trace lists what get_links() lists.                  *)
DirectLinksListed ==
    step = "answered" /\ MaxDepth > 0 => Links(Root) \subseteq ids

(* get_need_links.py:173: "Get flat list of all linked IDs within depth".  *)
AllWithinDepth == step = "trace" /\ calls = <<>> => Within \subseteq ids \cup {Root}

(* The shared set of visited elements is the only reason for the list to   *)
(* lack an element within the depth: some element at the depth limit,      *)
(* where it is not expanded, has a shorter path as well.                   *)
CompleteUnlessAmbiguous ==
    AllWithinDepth \/ \E n \in 0 .. MaxDepth - 1 : Reached(n) \cap Reached(MaxDepth) # {}

(* What the shared set of visited elements may cost is bounded: with a     *)
(* depth of at least the number of elements in the build the flat list is  *)
(* complete, whatever the cycles, the elements without a file and the      *)
(* order in which shared elements are reached.                             *)
CompleteIfDeepEnough == Cardinality(files) <= MaxDepth => AllWithinDepth
=============================================================================
