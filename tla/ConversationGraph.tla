------------------------- MODULE ConversationGraph -------------------------
(***************************************************************************)
(* What is made of a conversation's "mapping", a tree of messages as the   *)
(* provider tells it, parents and children apart: graph.py's report on its *)
(* integrity, by a depth-first search and a search from the roots, and     *)
(* normalizer.py's selected path and branches, one step per turn of a      *)
(* loop.  Parents and children may be anything; the "id" of a node is its  *)
(* key, as it is in every mapping of the tests and fixtures.               *)
(***************************************************************************)
EXTENDS Naturals, Sequences, FiniteSetsExt

CONSTANTS
  Nodes,      \* keys of the mapping
  Unknown,    \* an identifier that is no key of it
  NoNode,
  MaxFaults   \* bound: references of the lists of children that are wrong

VARIABLES
  parent,     \* parent of each node
  children,   \* children of each node
  pass,       \* the loop under way: cycles, branches, or done
  colour, stack, cycles,
  visited,    \* all_visited
  segment,    \* the walk under way
  walks,      \* the walks to come, in the order of the recursion
  branches    \* branch_index: the message_ids of each branch

mappingVars == <<parent, children>>
searchVars == <<colour, stack, cycles>>
branchVars == <<visited, segment, walks, branches>>
graphVars == <<mappingVars, pass, searchVars, branchVars>>

Ids == Nodes \cup {Unknown}

(* The lists of children follow the parents, but for some faults. *)
Init ==
  /\ parent \in [Nodes -> Ids \cup {NoNode}]
  /\ \E faults \in UNION {kSubset(k, Nodes \X Ids) : k \in 0 .. MaxFaults} :
       children = [n \in Nodes |->
         {c \in Ids : (c \in Nodes /\ parent[c] = n) # (<<n, c>> \in faults)}]
  /\ pass = "cycles"
  /\ colour = [n \in Nodes |-> "white"] /\ stack = <<>> /\ cycles = {}
  /\ visited = {} /\ segment = <<>> /\ walks = <<>> /\ branches = {}

(* Some order of a set: that of the children's list. *)
Listed(S) == CHOOSE q \in [1 .. Cardinality(S) -> S] : \A i, j \in DOMAIN q : q[i] = q[j] => i = j

-----------------------------------------------------------------------------
(* verify_raw_mapping: the depth-first search.  An entry of the stack says *)
(* whether its node is entered or left.                                    *)

Start ==
  /\ pass = "cycles" /\ stack = <<>>
  /\ \E n \in Nodes : colour[n] = "white" /\ stack' = <<<<n, FALSE>>>>
  /\ UNCHANGED <<mappingVars, pass, colour, cycles, branchVars>>

Top == stack[Len(stack)]
Rest == SubSeq(stack, 1, Len(stack) - 1)

Leave ==
  /\ stack # <<>> /\ Top[2]
  /\ colour' = [colour EXCEPT ![Top[1]] = "black"]
  /\ stack' = Rest
  /\ UNCHANGED <<mappingVars, pass, cycles, branchVars>>

Enter ==
  /\ stack # <<>> /\ ~Top[2] /\ colour[Top[1]] = "white"
  /\ colour' = [colour EXCEPT ![Top[1]] = "grey"]
  /\ LET known == Listed(children[Top[1]] \cap Nodes)
     IN stack' = Rest \o <<<<Top[1], TRUE>>>> \o [i \in DOMAIN known |-> <<known[i], FALSE>>]
  /\ UNCHANGED <<mappingVars, pass, cycles, branchVars>>

(* Mutant: whatever was entered before closes a cycle. *)
MeetAny ==
  /\ stack # <<>> /\ ~Top[2] /\ colour[Top[1]] # "white"
  /\ cycles' = cycles \cup {Top[1]}
  /\ stack' = Rest
  /\ UNCHANGED <<mappingVars, pass, colour, branchVars>>

(* A node met again closes a cycle while it is grey, and none when black. *)
Meet ==
  /\ stack # <<>> /\ ~Top[2] /\ colour[Top[1]] # "white"
  /\ cycles' = IF colour[Top[1]] = "grey" THEN cycles \cup {Top[1]} ELSE cycles
  /\ stack' = Rest
  /\ UNCHANGED <<mappingVars, pass, colour, branchVars>>

Roots == {n \in Nodes : parent[n] = NoNode}

(* The nodes within k steps of the roots, along the lists of children. *)
ReachIn[k \in 0 .. Cardinality(Nodes)] ==
  IF k = 0 THEN Roots
  ELSE ReachIn[k - 1] \cup UNION {children[n] \cap Nodes : n \in ReachIn[k - 1]}

Unreachable == Nodes \ ReachIn[Cardinality(Nodes)]

Disagreements == {n \in Nodes : \E c \in children[n] \cap Nodes : parent[c] # n}

(* Mutant: parents are not compared with the lists of children. *)
ReportTrusting ==
  /\ Unknown \notin {parent[n] : n \in Nodes} \cup UNION {children[n] : n \in Nodes}
  /\ cycles = {} /\ Roots # {} /\ Unreachable = {}

(* GraphIntegrityReport.complete: no warning, no error. *)
Report ==
  /\ Unknown \notin {parent[n] : n \in Nodes} \cup UNION {children[n] : n \in Nodes}
  /\ Disagreements = {}
  /\ cycles = {} /\ Roots # {} /\ Unreachable = {}

Searched ==
  /\ pass = "cycles" /\ stack = <<>> /\ \A n \in Nodes : colour[n] = "black"
  /\ pass' = "branches"
  /\ walks' = Listed(Roots)
  /\ UNCHANGED <<mappingVars, searchVars, visited, segment, branches>>

-----------------------------------------------------------------------------
(* _selected_path: the parents of the current node, until one is none, is  *)
(* not there or was visited.                                               *)

PathFrom[walk \in (Ids \cup {NoNode}) \X SUBSET Nodes] ==
  LET n == walk[1]
      seen == walk[2]
  IN IF n \notin Nodes \ seen THEN <<>> ELSE Append(PathFrom[<<parent[n], seen \cup {n}>>], n)

SelectedPath(current) == PathFrom[<<current, {}>>]

-----------------------------------------------------------------------------
(* _compute_branch_index: a walk follows single children; the children of  *)
(* a branch point begin walks of their own.                                *)

Keep(s) == IF s = <<>> THEN branches ELSE branches \cup {s}

(* Mutant: a walk does not look at what other walks have visited. *)
WalkOverlapping ==
  /\ pass = "branches" /\ walks # <<>>
  /\ UNCHANGED <<mappingVars, pass, searchVars>>
  /\ LET n == Head(walks)
         kids == Listed(children[n])
     IN IF n \notin Nodes \/ n \in {segment[i] : i \in DOMAIN segment}
          THEN /\ branches' = Keep(segment)
               /\ segment' = <<>> /\ walks' = Tail(walks) /\ visited' = visited \cup {n}
          ELSE /\ visited' = visited \cup {n}
               /\ walks' = kids \o Tail(walks)
               /\ IF Len(kids) = 1
                    THEN segment' = Append(segment, n) /\ UNCHANGED branches
                    ELSE segment' = <<>> /\ branches' = Keep(Append(segment, n))

Walk ==
  /\ pass = "branches" /\ walks # <<>>
  /\ UNCHANGED <<mappingVars, pass, searchVars>>
  /\ LET n == Head(walks)
         kids == Listed(children[n])
     IN IF n \in visited \/ n \notin Nodes
          THEN /\ branches' = Keep(segment)
               /\ segment' = <<>> /\ walks' = Tail(walks) /\ visited' = visited \cup {n}
          ELSE /\ visited' = visited \cup {n}
               /\ walks' = kids \o Tail(walks)
               /\ IF Len(kids) = 1
                    THEN segment' = Append(segment, n) /\ UNCHANGED branches
                    ELSE segment' = <<>> /\ branches' = Keep(Append(segment, n))

Walked ==
  /\ pass = "branches" /\ walks = <<>>
  /\ pass' = "done"
  /\ UNCHANGED <<mappingVars, searchVars, branchVars>>

Process == Start \/ Leave \/ Enter \/ Meet \/ Searched \/ Walk \/ Walked

Next == Process

Spec == Init /\ [][Next]_graphVars
-----------------------------------------------------------------------------

(* The reference: descendants by the lists of children. *)
ClosureIn[k \in 0 .. Cardinality(Nodes)] ==
  IF k = 0 THEN {e \in Nodes \X Nodes : e[2] \in children[e[1]]}
  ELSE LET R == ClosureIn[k - 1]
       IN R \cup {e \in Nodes \X Nodes : \E m \in Nodes : <<e[1], m>> \in R /\ <<m, e[2]>> \in R}

Descends(n, c) == <<n, c>> \in ClosureIn[Cardinality(Nodes)]

(* "not recurse indefinitely even in the presence of cycles": the search   *)
(* reports a cycle exactly where the lists of children have one, and each  *)
(* node it names lies on one.                                              *)
CyclesFound ==
  pass = "branches" /\ walks # <<>> =>
    /\ \A n \in cycles : Descends(n, n)
    /\ \A n \in Nodes : Descends(n, n) => \E m \in cycles : Descends(n, m) /\ Descends(m, n)

(* A report that says complete: each node's parents lead to a root, each   *)
(* node is the child of its parent alone, and the selected path runs from  *)
(* a root to the current node.                                             *)
CompleteMeansForest ==
  pass = "done" /\ Report =>
    /\ \A n, m \in Nodes : m \in children[n] <=> parent[m] = n
    /\ \A current \in Nodes :
         LET path == SelectedPath(current)
         IN parent[path[1]] = NoNode /\ path[Len(path)] = current

(* Every message that can be reached from a root is in one branch exactly, *)
(* whatever the mapping looks like, and no other is in any.                *)
BranchesPartition ==
  pass = "done" =>
    \A n \in Nodes :
      Cardinality({at \in branches \X (1 .. Cardinality(Nodes)) :
                     at[2] <= Len(at[1]) /\ at[1][at[2]] = n})
        = IF n \in Unreachable THEN 0 ELSE 1
=============================================================================
