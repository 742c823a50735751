---------------------------- MODULE Collections ----------------------------
(***************************************************************************)
(* Go's maps and lists as the modules use them. `@@`, SelectSeq and the     *)
(* folds say the same; these are written so that one can reason about them. *)
(***************************************************************************)
EXTENDS Naturals, Sequences

\* map[key] = value.
Put(map, key, value) ==
    [k \in DOMAIN map \union {key} |-> IF k = key THEN value ELSE map[k]]

\* Both, f where they overlap.
Over(f, g) ==
    [k \in DOMAIN f \union DOMAIN g |-> IF k \in DOMAIN f THEN f[k] ELSE g[k]]

\* The elements of s that are in wanted, in their order.
Those(s, wanted) ==
    LET those[n \in 0..Len(s)] ==
          IF n = 0 THEN <<>>
          ELSE IF s[n] \in wanted THEN Append(those[n - 1], s[n]) ELSE those[n - 1]
    IN those[Len(s)]

\* The last element of s that is in wanted.
LastIn(s, wanted) ==
    s[CHOOSE i \in DOMAIN s : s[i] \in wanted /\ \A j \in DOMAIN s : s[j] \in wanted => j <= i]

\* The lists of a list, one after the other.
Joined(lists) ==
    LET joined[n \in 0..Len(lists)] == IF n = 0 THEN <<>> ELSE joined[n - 1] \o lists[n]
    IN joined[Len(lists)]
=============================================================================
