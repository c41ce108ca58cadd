-------------------------- MODULE StructuredChunks --------------------------
(***************************************************************************)
(* How the library cuts a JSON or YAML document: chunk_json.go and         *)
(* chunk_yaml.go.                                                          *)
(*                                                                         *)
(* A parsed value is a tree: a leaf [tag |-> "leaf", n] with n bytes once  *)
(* marshalled; a leaf [tag |-> "nan", n] that JSON has no text for, which  *)
(* only YAML can express (.nan, .inf); a map [tag |-> "map", of |->        *)
(* function from keys]; or an array [tag |-> "arr", of |-> sequence].  A   *)
(* key is a pair <<"str", k>>.                                             *)
(* A chunk is a record [path, label, items, size]: the keys and indexes    *)
(* <<"idx", i>> above it, the array range it stands for (<<>> for a map    *)
(* entry), the values marshalled into it and their bytes.  Go ranges over  *)
(* a map in any order, so the chunks of a value are a set.                 *)
(***************************************************************************)
EXTENDS Integers, Sequences, FiniteSets, SequencesExt

LOCAL SumOf(s) == FoldLeft(LAMBDA acc, n: acc + n, 0, s)

RECURSIVE Size(_)

\* len(json.Marshal(v)); a key has one letter, so `"k":` is four bytes.
Size(v) ==
  CASE v.tag \in {"leaf", "nan"} -> v.n
    [] v.tag = "map" ->
         LET ks == SetToSeq(DOMAIN v.of)
         IN 2 + SumOf([i \in 1..Len(ks) |-> 4 + Size(v.of[ks[i]])])
              + (IF ks = <<>> THEN 0 ELSE Len(ks) - 1)
    [] v.tag = "arr" ->
         2 + SumOf([i \in 1..Len(v.of) |-> Size(v.of[i])])
           + (IF v.of = <<>> THEN 0 ELSE Len(v.of) - 1)

RECURSIVE Marshals(_)

\* json.Marshal(v) succeeds: no value below has no text.
Marshals(v) ==
  CASE v.tag = "leaf" -> TRUE
    [] v.tag = "nan" -> FALSE
    [] OTHER -> \A k \in DOMAIN v.of: Marshals(v.of[k])

\* A map or an array with something in it.
Splittable(v) == v.tag \in {"map", "arr"} /\ DOMAIN v.of # {}

Arr(s) == [tag |-> "arr", of |-> s]

\* json.Marshal(map[string]any{key: child})
Entry(k, child) == [tag |-> "map", of |-> [x \in {k} |-> child]]

flushArrayChunk(buf, path, start, end) ==
  {[path |-> path, label |-> <<start, end>>, items |-> buf, size |-> Size(Arr(buf))]}

RECURSIVE chunkStructured(_, _, _)

(***************************************************************************)
(* chunkArray: elements gather in buf while they fit; an element too big   *)
(* even alone is chunked on its own when it has parts, else it waits in    *)
(* buf and goes out with the next flush.  An element that cannot be        *)
(* marshalled is passed over, and lies in the range of the next flush all  *)
(* the same; buf never holds one, so the flush itself marshals.  Indexes   *)
(* are Go's, from 0.                                                       *)
(***************************************************************************)
chunkArray(arr, path, max) ==
  LET Step(s, i) ==
        LET elem == arr[i + 1]
            candidate == Append(s.buf, elem)
            over == Size(Arr(candidate)) > max /\ s.buf # <<>>
            t == IF over
                 THEN [out |-> s.out \cup flushArrayChunk(s.buf, path, s.start, i - 1),
                       buf |-> <<elem>>, start |-> i]
                 ELSE [s EXCEPT !.buf = candidate]
        IN CASE ~Marshals(elem) -> s
             [] Marshals(elem) /\ Len(t.buf) = 1 /\ Size(Arr(<<elem>>)) > max /\ Splittable(elem) ->
                  [out |-> t.out \cup chunkStructured(elem, Append(path, <<"idx", i>>), max),
                   buf |-> <<>>, start |-> i + 1]
             [] OTHER -> t
      s == FoldLeft(Step, [out |-> {}, buf |-> <<>>, start |-> 0],
                    [i \in 1..Len(arr) |-> i - 1])
  IN s.out \cup IF s.buf = <<>> THEN {}
                ELSE flushArrayChunk(s.buf, path, s.start, Len(arr) - 1)

\* An entry that cannot be marshalled is passed over, with all of its child.
chunkStructured(v, path, max) ==
  CASE v.tag = "map" ->
         UNION {LET child == v.of[k]
                    size == Size(Entry(k, child))
                IN IF size > max /\ Splittable(child)
                   THEN chunkStructured(child, Append(path, k), max)
                   ELSE {[path |-> Append(path, k), label |-> <<>>,
                          items |-> <<child>>, size |-> size]}: k \in {x \in DOMAIN v.of: Marshals(v.of[x])}}
    [] v.tag = "arr" /\ v.of # <<>> -> chunkArray(v.of, path, max)
    [] OTHER -> {}

\* chunkJSON of a document that parses: one that leaves no chunk, a primitive,
\* an empty container, or nothing that can be marshalled, is one chunk holding
\* the document's own text.
chunkJSON(v, max) ==
  LET chunks == chunkStructured(v, <<>>, max)
  IN IF chunks # {} THEN chunks
     ELSE {[path |-> <<>>, label |-> <<>>, items |-> <<v>>, size |-> Size(v)]}

RECURSIVE normalizeYAML(_)

\* yaml.v3 may give a map keys that are not strings, <<"raw", spelling>> here
\* beside <<"str", spelling>>; normalizeYAML spells them as strings, all the
\* way down.  The keys of one map have different spellings (of two alike the
\* map it builds would keep either).
normalizeYAML(v) ==
  CASE v.tag = "map" ->
         [v EXCEPT !.of = [k \in {<<"str", d[2]>>: d \in DOMAIN v.of} |->
            normalizeYAML(v.of[CHOOSE d \in DOMAIN v.of: d[2] = k[2]])]]
    [] v.tag = "arr" -> [v EXCEPT !.of = [i \in 1..Len(@) |-> normalizeYAML(v.of[i])]]
    [] OTHER -> v

chunkYAML(v, max) == chunkJSON(normalizeYAML(v), max)

=============================================================================
