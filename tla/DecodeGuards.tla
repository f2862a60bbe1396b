---------------------------- MODULE DecodeGuards ----------------------------
(***************************************************************************)
(* In-place decoding of one value: every `decode` initialises the place it *)
(* is given, and while it runs, a drop guard stands for the parts it has   *)
(* decoded so far.  Any part may fail (an error of the bearer, an invalid  *)
(* pattern, a panic of a user's implementation); the failure leaves the    *)
(* calls one by one, and drops the guard of each.                          *)
(*                                                                         *)
(* A value is a tree of parts.  Its kinds:                                 *)
(*   leaf     a value that owns something, whose decode has no parts       *)
(*   skipped  a field marked #[barrique(skip)]: written, never decoded     *)
(*   pointer  Box<T>, Arc<T>, Rc<T>; their one part lies on the heap       *)
(*   slice    Box<[T]>, Arc<[T]>, Rc<[T]>                                  *)
(*   vec      Vec<T>                                                       *)
(*   array    [T; N]                                                       *)
(*   tuple    a tuple                                                      *)
(*   struct   a struct that derives Decode                                 *)
(*   owned    anything decoded with get into locals: Option, Result, enum  *)
(*            variants, maps, sets, lists                                  *)
(***************************************************************************)
EXTENDS Naturals, Sequences

CONSTANT
  Trees  (* values to decode: root, kind and parts of every node, and what  *)
         (* lies below each, itself included                                *)

Kinds == {"leaf", "skipped", "pointer", "slice", "vec", "array", "tuple",
          "struct", "owned"}

(* Each part has its own, and what lies below a part lies below all that   *)
(* the part lies below; only a leaf or a skipped field needs no parts, and *)
(* a heap pointer has the one it points to.                                *)
IsTree(t) ==
  /\ t.kind \in [DOMAIN t.kind -> Kinds]
  /\ t.root \in DOMAIN t.kind
  /\ t.parts \in [DOMAIN t.kind -> Seq(DOMAIN t.kind)]
  /\ t.below \in [DOMAIN t.kind -> SUBSET DOMAIN t.kind]
  /\ t.below[t.root] = DOMAIN t.kind
  /\ \A n \in DOMAIN t.kind :
       /\ t.below[n] =
            {n} \cup UNION {t.below[t.parts[n][i]] : i \in DOMAIN t.parts[n]}
       /\ \A m \in t.below[n] : t.below[m] \subseteq t.below[n]
       /\ \A i \in DOMAIN t.parts[n] : n \notin t.below[t.parts[n][i]]
       /\ \A i, j \in DOMAIN t.parts[n] :
            i # j => t.below[t.parts[n][i]] \cap t.below[t.parts[n][j]] = {}
       /\ t.kind[n] \in {"leaf", "skipped"} => t.parts[n] = << >>
       /\ t.kind[n] = "pointer" => Len(t.parts[n]) = 1

ASSUME TreesAssumption == \A t \in Trees : IsTree(t)

VARIABLES
  tree,     (* the value to decode                                           *)
  stack,    (* the calls of `decode` that are running, outermost first       *)
  count,    (* parts each call has decoded, as its guard counts them         *)
  slot,     (* uninit, init or dropped: what the place of a node holds       *)
  heap,     (* none, live or freed: the allocation a node makes              *)
  misused,  (* nodes dropped when they held no value, or in freed memory     *)
  outcome   (* decoding, failing, err, ok, dropped (by the caller)           *)

vars == <<tree, stack, count, slot, heap, misused, outcome>>

Nodes == DOMAIN tree.kind
Is(n, kinds) == tree.kind[n] \in kinds

(* Kinds whose parts lie in an allocation of their own.                    *)
Allocating == {"pointer", "slice", "vec"}

(* Kinds whose decode reads a length or a tag before their parts, and may  *)
(* fail there.                                                             *)
Prefixed == {"slice", "vec", "owned"}

Init ==
  /\ tree \in Trees
  /\ stack = << >>
  /\ count = [n \in Nodes |-> 0]
  /\ slot = [n \in Nodes |-> "uninit"]
  /\ heap = [n \in Nodes |-> "none"]
  /\ misused = {}
  /\ outcome = "decoding"

-----------------------------------------------------------------------------
Top == stack[Len(stack)]
Caller(s) == SubSeq(s, 1, Len(s) - 1)

(* The running call is about to decode its next part; the first call is    *)
(* for the root.                                                           *)
HasNext ==
  /\ outcome = "decoding"
  /\ IF stack = << >> THEN slot[tree.root] = "uninit"
                      ELSE count[Top] < Len(tree.parts[Top])
Upcoming == IF stack = << >> THEN tree.root ELSE tree.parts[Top][count[Top] + 1]

(* The guard of the call at the end of `s` counts one more part.           *)
CountedTwice(s) ==
  IF s = << >> THEN count ELSE [count EXCEPT ![s[Len(s)]] = @ + 2]
Counted(s) ==
  IF s = << >> THEN count ELSE [count EXCEPT ![s[Len(s)]] = @ + 1]

(* A node whose memory an enclosing allocation has taken with it.          *)
Gone(n) == \E a \in Nodes : n \in tree.below[a] \ {a} /\ heap[a] = "freed"

(* drop_in_place of the nodes in `roots`, with all below them; then the    *)
(* allocations of the nodes in `also` are freed.                           *)
Drops(roots, also) ==
  LET all   == UNION {tree.below[n] : n \in roots}
      frees == {n \in all : Is(n, Allocating)} \cup also
  IN  /\ misused' = misused
           \cup {n \in all : slot[n] # "init" \/ Gone(n)}
           \cup {n \in frees : heap[n] # "live"}
      /\ slot' = [n \in Nodes |-> IF n \in all THEN "dropped" ELSE slot[n]]
      /\ heap' = [n \in Nodes |-> IF n \in frees THEN "freed" ELSE heap[n]]

-----------------------------------------------------------------------------
(* A call of `decode` for a value with parts: its place on the heap is     *)
(* allocated, its guard set up.                                            *)
Enter ==
  /\ HasNext
  /\ ~Is(Upcoming, {"leaf", "skipped"})
  /\ stack' = Append(stack, Upcoming)
  /\ heap' = [heap EXCEPT ![Upcoming] =
                IF Is(Upcoming, Allocating) THEN "live" ELSE @]
  /\ UNCHANGED <<tree, count, slot, misused, outcome>>

(* A part without parts of its own is decoded, or a skipped field written. *)
Decoded ==
  /\ HasNext
  /\ Is(Upcoming, {"leaf", "skipped"})
  /\ slot' = [slot EXCEPT ![Upcoming] = "init"]
  /\ count' = Counted(stack)
  /\ outcome' = IF stack = << >> THEN "ok" ELSE outcome
  /\ UNCHANGED <<tree, stack, heap, misused>>

(* A part fails before it has anything to clean up.                        *)
Fails ==
  /\ HasNext
  /\ Is(Upcoming, {"leaf"} \cup Prefixed)
  /\ outcome' = IF stack = << >> THEN "err" ELSE "failing"
  /\ UNCHANGED <<tree, stack, count, slot, heap, misused>>

(* All parts are decoded.  The guard is forgotten; that of a heap pointer  *)
(* is dropped instead, which frees the allocation the pointer is then made *)
(* from.                                                                   *)
FreedWithSlices(n) == Is(n, {"pointer", "slice"})
FreedOnReturn(n) == Is(n, {"pointer"})
Returns ==
  /\ outcome = "decoding"
  /\ stack # << >>
  /\ count[Top] = Len(tree.parts[Top])
  /\ slot' = [slot EXCEPT ![Top] = "init"]
  /\ heap' = [heap EXCEPT ![Top] = IF FreedOnReturn(Top) THEN "freed" ELSE @]
  /\ stack' = Caller(stack)
  /\ count' = Counted(Caller(stack))
  /\ outcome' = IF Len(stack) = 1 THEN "ok" ELSE outcome
  /\ UNCHANGED <<tree, misused>>

(* What the guard of a call drops that has counted k parts.  Vec has its   *)
(* length set after each part; the guard of a struct leaves skipped fields *)
(* alone; that of arrays and slices drops a slice of MaybeUninit, which    *)
(* drops nothing; that of a pointer frees its allocation only.             *)
DroppedAfter(n, k) ==
  LET first == {tree.parts[n][i] : i \in 1 .. k}
  IN  CASE Is(n, {"vec", "tuple", "owned"})     -> first
        [] Is(n, {"struct"})                    ->
             {p \in first : ~Is(p, {"skipped"})}
        [] Is(n, {"pointer", "slice", "array"}) -> {}

GuardDropsNext(n) == DroppedAfter(n, count[n] + 1)
GuardDropsShort(n) ==
  IF count[n] = 0 THEN {} ELSE DroppedAfter(n, count[n] - 1)
GuardDrops(n) == DroppedAfter(n, count[n])

(* The failure leaves a call, whose guard is dropped.                      *)
Unwind ==
  /\ outcome = "failing"
  /\ Drops(GuardDrops(Top), IF Is(Top, Allocating) THEN {Top} ELSE {})
  /\ stack' = Caller(stack)
  /\ outcome' = IF Len(stack) = 1 THEN "err" ELSE outcome
  /\ UNCHANGED <<tree, count>>

(* The caller got Ok, and in the end drops the value.                      *)
DropResult ==
  /\ outcome = "ok"
  /\ Drops({tree.root}, {})
  /\ outcome' = "dropped"
  /\ UNCHANGED <<tree, stack, count>>

Next == Enter \/ Decoded \/ Fails \/ Returns \/ Unwind \/ DropResult

Spec == Init /\ [][Next]_vars

-----------------------------------------------------------------------------
TypeOK ==
  /\ IsTree(tree)
  /\ stack \in Seq(Nodes)
  /\ count \in [Nodes -> Nat]
  /\ \A n \in Nodes : count[n] <= Len(tree.parts[n])
  /\ slot \in [Nodes -> {"uninit", "init", "dropped"}]
  /\ heap \in [Nodes -> {"none", "live", "freed"}]
  /\ misused \subseteq Nodes
  /\ outcome \in {"decoding", "failing", "err", "ok", "dropped"}

(* "`dst` must be properly initialized in case of `Ok`": every part holds  *)
(* a value, and every allocation it lies in is live.                       *)
InitialisedWhenOk ==
  outcome = "ok" =>
    \A n \in Nodes :
      slot[n] = "init" /\ (Is(n, Allocating) => heap[n] = "live")

(* A heap pointer whose decode has returned: its allocation is gone.       *)
Dangling(p) == Is(p, {"pointer"}) /\ slot[p] # "uninit"
BelowDangling(n) == \E p \in Nodes : Dangling(p) /\ n \in tree.below[p]

(* The same of what no heap pointer owns: collections, arrays, tuples and  *)
(* structs, however nested, come out initialised and allocated.            *)
OwnedWhenOk ==
  outcome = "ok" =>
    \A n \in Nodes :
      /\ slot[n] = "init"
      /\ Is(n, Allocating) /\ ~BelowDangling(n) => heap[n] = "live"

(* Whatever part fails, and after success: no value is dropped twice, none *)
(* that was not decoded, none in freed memory, and no allocation is freed  *)
(* twice, apart from what a decoded heap pointer owns.                     *)
DroppedOnce == \A n \in misused : BelowDangling(n)

(* Whatever part fails, what was decoded before it is dropped and what was *)
(* allocated is freed, except for the elements of an array or slice that   *)
(* failed, and the skipped fields of a struct that failed.                 *)
Forgotten(n) ==
  \E a \in Nodes :
    /\ slot[a] = "uninit"
    /\ n \in tree.below[a] \ {a}
    /\ \/ Is(a, {"array", "slice"})
       \/ Is(a, {"struct"}) /\ Is(n, {"skipped"})

NothingLeaks ==
  outcome \in {"err", "dropped"} =>
    \A n \in Nodes :
      ~Forgotten(n) => slot[n] # "init" /\ heap[n] # "live"
=============================================================================
