------------------------------- MODULE OrderRules -------------------------------
(***************************************************************************)
(* The rules that order the children of a chunk or of a word around their  *)
(* head (mergeArrays in util.pm, used by interchunkOrder.pm and            *)
(* intrachunkOrder.pm), as pure operators.                                 *)
(*                                                                         *)
(* A rule is a sequence of tokens: a variable, and "+" if it must follow   *)
(* the one before it at once, "." if at some distance, "" if nothing is    *)
(* said.  One of the variables is "head".  Children that no condition of   *)
(* the rule covers share the variable "y0".                                *)
(***************************************************************************)
EXTENDS SequenceFilters, FiniteSets, FiniteSetsExt

Dummy == "y0"

Token(operator, variable) == [op |-> operator, var |-> variable]

\* The place of an element that s has once.
Pos(s, e) == CHOOSE i \in DOMAIN s : s[i] = e

\* A set of numbers in ascending order.
Ascending(S) == [i \in 1 .. Cardinality(S) |-> CHOOSE n \in S : Cardinality({m \in S : m < n}) = i - 1]

\* Each element where it comes first.
Uniq(s) ==
    LET firsts == Only([i \in DOMAIN s |-> i], {i \in DOMAIN s : \A j \in 1 .. i - 1 : s[j] # s[i]})
    IN  [k \in DOMAIN firsts |-> s[firsts[k]]]

(***************************************************************************)
(* Where a variable goes, next to the one that was placed before it: left  *)
(* of it and of whatever no rule covers, up to and including the next one  *)
(* that a rule covers; or right of it and of what no rule covers.          *)
(***************************************************************************)
Left(s, previous, operator) ==
    LET p == Pos(s, previous)
    IN IF operator = "+" \/ p = 1 THEN p
       ELSE Max({k \in 1 .. p - 1 : k = 1 \/ s[k] # Dummy})

Right(s, previous, operator) ==
    LET p == Pos(s, previous)
    IN IF operator = "+" THEN p + 1
       ELSE Min({k \in p + 1 .. Len(s) + 1 : k = Len(s) + 1 \/ s[k] # Dummy})

\* Leftwards it is the operator of the variable placed before that counts, rightwards the
\* variable's own.  Without an operator a variable is taken out and not put back.
PlaceLeft(merged, token) ==
    LET rest == Without(merged.seq, {token.var})
    IN IF ~Contains(merged.seq, token.var) THEN merged
       ELSE IF merged.op = "" THEN [merged EXCEPT !.seq = rest]
       ELSE [seq |-> InsertAt(rest, Left(rest, merged.previous, merged.op), token.var),
             previous |-> token.var, op |-> token.op]

\* A bug that PlaceRight does not have: next to the head, as the first variable.
PlaceRightOfHead(merged, token) ==
    LET rest == Without(merged.seq, {token.var})
    IN IF ~Contains(merged.seq, token.var) THEN merged
       ELSE [merged EXCEPT !.seq = InsertAt(rest, Right(rest, "head", token.op), token.var)]

PlaceRight(merged, token) ==
    LET rest == Without(merged.seq, {token.var})
    IN IF ~Contains(merged.seq, token.var) THEN merged
       ELSE IF token.op = "" THEN [merged EXCEPT !.seq = rest]
       ELSE [seq |-> InsertAt(rest, Right(rest, merged.previous, token.op), token.var),
             previous |-> token.var, op |-> token.op]

MergeArrays(old, rule) ==
    LET h == CHOOSE i \in DOMAIN rule : rule[i].var = "head"
        left[k \in 0 .. h - 1] ==
            IF k = 0 THEN [seq |-> old, previous |-> "head", op |-> rule[h].op]
            ELSE PlaceLeft(left[k - 1], rule[h - k])
        right[k \in 0 .. Len(rule) - h] ==
            IF k = 0 THEN [left[h - 1] EXCEPT !.previous = "head"]
            ELSE PlaceRight(right[k - 1], rule[h + k])
    IN right[Len(rule) - h].seq

(***************************************************************************)
(* The orders that a rule may give head and children, which are in         *)
(* document order, have the variables var and come from the places place.  *)
(* What no condition covers is kept in a hash by its place, which one that *)
(* comes later at the same place overwrites or deletes, and leaves it in   *)
(* any order; a place that is taken twice has any of the two variables.    *)
(***************************************************************************)
Loose(children, var, place) ==
    {children[i] : i \in {j \in DOMAIN children :
        /\ var[children[j]] = Dummy
        /\ \A k \in DOMAIN children : k > j => place[children[k]] # place[children[j]]}}

\* The variables in the order of the rule, of elements in their places.
Outputs(variables, place, rule) ==
    LET placed == DOMAIN variables
        taken == {place[e] : e \in placed}
        places == Ascending(taken)
        keeps == {S \in SUBSET placed :
                    {place[e] : e \in S} = taken /\ \A d, e \in S : place[d] = place[e] => d = e}
        Source(S) == [i \in DOMAIN places |-> variables[CHOOSE e \in S : place[e] = places[i]]]
    IN {MergeArrays(Uniq(Source(S)), rule) : S \in keeps}

\* The elements of each variable in a row: of the dummy those of the hash.
Arranged(order, hash, all, variable) ==
    LET Row(v) == IF v = Dummy THEN hash ELSE Only(all, {e \in DOMAIN variable : variable[e] = v})
    IN FlattenSeq([i \in DOMAIN order |-> Row(order[i])])

Arrangements(head, children, var, place, rule) ==
    LET all == <<head>> \o children
        variable == [e \in ToSet(all) |-> IF e = head THEN "head" ELSE var[e]]
        loose == Loose(children, var, place)
        placed == {e \in ToSet(all) : variable[e] = Dummy => e \in loose}
        outputs == Outputs([e \in placed |-> variable[e]], place, rule)
    IN {Arranged(o, hash, all, variable) : o \in outputs, hash \in SetToSeqs(loose)}
===============================================================================
