---------------------------- MODULE CanonicalBody ---------------------------
(***************************************************************************)
(* How a request body loses its ignored paths before it is hashed          *)
(* (canonicalize_body): JSON pointers are removed one after the other, and *)
(* removing an array entry renumbers those behind it, so the order of the  *)
(* removals decides what a later pointer addresses.                        *)
(*                                                                         *)
(* A document is a function from the paths of its nodes to what is there:  *)
(* "object", "array" or a scalar.  A path is the sequence of its tokens;   *)
(* the order of an object's keys does not exist in this form, which is     *)
(* what sorting them amounts to.                                           *)
(***************************************************************************)
EXTENDS Naturals, Sequences, SequencesExt, FiniteSets

(* Array indices are canonical decimals; a zero-padded one is refused.     *)
CONSTANTS
  IndexTokens,   \* "0", "1" and so on, as far as any array or path goes
  PaddedTokens   \* "00", "01" and so on

ASSUME IndexTokensAssumption == IndexTokens \in Seq(STRING) /\ IsInjective(IndexTokens)

IsIndex(t) == t \in ToSet(IndexTokens)
IndexOf(t) == CHOOSE i \in DOMAIN IndexTokens : IndexTokens[i] = t

Holds(doc, path) == path \in DOMAIN doc
IsArray(doc, path) == Holds(doc, path) /\ doc[path] = "array"

(* A finite tree whose inner nodes are containers.                         *)
IsDocument(doc) ==
  /\ IsFiniteSet(DOMAIN doc)
  /\ \A p \in DOMAIN doc :
       /\ p \in Seq(STRING)
       /\ \A k \in 0..(Len(p) - 1) :
            LET q == SubSeq(p, 1, k) IN Holds(doc, q) /\ doc[q] \in {"object", "array"}

(* The entries of an array are addressed by the indices from zero on.      *)
HasAnArrayAt(doc, q, k) == IsArray(doc, SubSeq(q, 1, k - 1))
Entry(q, k, i) == Append(SubSeq(q, 1, k - 1), IndexTokens[i])

ArraysHaveNoGaps(doc) ==
  \A q \in DOMAIN doc : \A k \in DOMAIN q :
    HasAnArrayAt(doc, q, k) =>
      /\ IsIndex(q[k])
      /\ \A i \in 1..(IndexOf(q[k]) - 1) : Holds(doc, Entry(q, k, i))

-----------------------------------------------------------------------------
(* The order of removal: duplicates go; the entries of one array come      *)
(* together, highest index first; deeper paths come before shallower ones. *)
AddNew(kept, p) == IF p \in ToSet(kept) THEN kept ELSE Append(kept, p)

Deduplicated(pointers) == FoldLeft(AddNew, <<>>, pointers)

IsArrayEntry(p) == IsIndex(Last(p))
EntryIndex(p) == IndexOf(Last(p))

AreSiblings(p, q) == IsArrayEntry(p) /\ IsArrayEntry(q) /\ Front(p) = Front(q)

InsertEntry(entries, q) ==
  LET higher == {k \in DOMAIN entries : EntryIndex(entries[k]) > EntryIndex(q)}
  IN  InsertAt(entries, Cardinality(higher) + 1, q)

AddSibling(p, entries, q) == IF AreSiblings(p, q) THEN InsertEntry(entries, q) ELSE entries

(* The group of a removal, sorted. *)
HighestIndexFirst(pointers, p) ==
  FoldLeft(LAMBDA entries, q : AddSibling(p, entries, q), <<>>, pointers)

EmitRemoval(pointers, ordered, p) ==
  IF p \in ToSet(ordered) THEN ordered
  ELSE IF IsArrayEntry(p) THEN ordered \o HighestIndexFirst(pointers, p)
  ELSE Append(ordered, p)

Grouped(pointers) ==
  FoldLeft(LAMBDA ordered, p : EmitRemoval(pointers, ordered, p), <<>>, pointers)

(* A stable sort by depth, deepest first. *)
InsertByDepth(ordered, p) ==
  LET before == {k \in DOMAIN ordered : Len(ordered[k]) >= Len(p)}
  IN  InsertAt(ordered, Cardinality(before) + 1, p)

DeepestFirst(pointers) == FoldLeft(InsertByDepth, <<>>, pointers)

(* Mutant: the configured order, deepest first. *)
DepthOnly(pointers) == DeepestFirst(Deduplicated(pointers))

OrderedPointerRemovals(pointers) == DeepestFirst(Grouped(Deduplicated(pointers)))

(* validate_ignore_paths, before the body is touched. *)
InvalidPointerPath(pointers) ==
  \E p \in ToSet(pointers) : \E k \in DOMAIN p : p[k] \in PaddedTokens

-----------------------------------------------------------------------------
(* A pointer that walks into an array by a token that is no index fails.   *)
Misindexes(doc, p) ==
  \E k \in DOMAIN p : HasAnArrayAt(doc, p, k) /\ ~IsIndex(p[k])

Under(p, q) == IsPrefix(p, q)

(* Where a node behind a removed array entry moves to. *)
Renumbered(doc, p, q) ==
  LET d == Len(p) IN
  IF /\ IsArray(doc, Front(p)) /\ Under(Front(p), q) /\ Len(q) >= d
     /\ IsIndex(p[d]) /\ IsIndex(q[d]) /\ IndexOf(q[d]) > IndexOf(p[d])
  THEN [q EXCEPT ![d] = IndexTokens[IndexOf(q[d]) - 1]]
  ELSE q

(* A missing path removes nothing. *)
Without(doc, p) ==
  LET kept    == {q \in DOMAIN doc : ~Under(p, q)}
      moved   == {Renumbered(doc, p, q) : q \in kept}
      from(n) == CHOOSE q \in kept : Renumbered(doc, p, q) = n
  IN  IF Holds(doc, p) THEN [n \in moved |-> doc[from(n)]] ELSE doc

(* One removal; an error ends the canonicalisation. *)
RemovePointer(canonical, p) ==
  IF ~canonical.valid THEN canonical
  ELSE IF Misindexes(canonical.body, p) THEN [canonical EXCEPT !.valid = FALSE]
  ELSE [canonical EXCEPT !.body = Without(@, p)]

CanonicalizeBody(doc, pointers) ==
  IF InvalidPointerPath(pointers) THEN [valid |-> FALSE, body |-> doc]
  ELSE FoldLeft(RemovePointer, [valid |-> TRUE, body |-> doc],
                OrderedPointerRemovals(pointers))

-----------------------------------------------------------------------------
(* Reference: all pointers address the document as it was received; what   *)
(* survives keeps its place among the surviving entries of its array.      *)
Gone(pointers, q) == \E p \in ToSet(pointers) : Under(p, q)

SurvivingPlace(doc, pointers, q) ==
  [k \in DOMAIN q |->
     LET before == {i \in 1..(IndexOf(q[k]) - 1) : ~Gone(pointers, Entry(q, k, i))}
     IN  IF HasAnArrayAt(doc, q, k) THEN IndexTokens[Cardinality(before) + 1] ELSE q[k]]

IsWithout(body, doc, pointers) ==
  LET survivors == {q \in DOMAIN doc : ~Gone(pointers, q)}
      place(q)  == SurvivingPlace(doc, pointers, q)
  IN  /\ DOMAIN body = {place(q) : q \in survivors}
      /\ \A q \in survivors : body[place(q)] = doc[q]

(* Whether a path is malformed, or walks into an array of the received     *)
(* body by a key.                                                          *)
MustRefuse(doc, pointers) ==
  InvalidPointerPath(pointers) \/ \E p \in ToSet(pointers) : Misindexes(doc, p)
=============================================================================
