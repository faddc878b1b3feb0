---------------------------- MODULE ListToString ----------------------------
(***************************************************************************)
(* Info's ListToString (src/src/client/cluster_impl.h:85-120), which       *)
(* Info::Print (crocksctl info) uses to print a node's shards and future   *)
(* shards. The for loop is a state machine: Step is one iteration, Finish  *)
(* the code after the loop. The stream is a sequence of characters: the    *)
(* digits of a number written with <<, and the separators "," and "-".    *)
(* It is checked against the contract in the function's comment: maximal  *)
(* runs of consecutive integers, each "from-to" (or one number), joined    *)
(* by ",".                                                                  *)
(***************************************************************************)
EXTENDS Integers, Sequences, SequencesExt, Functions

CONSTANTS
    Id,         \* shard ids that may appear in a list
    MaxLen      \* longest list checked

VARIABLES
    list,       \* the argument
    i,          \* the loop's position in list
    in_range,   \* in_range
    last,       \* last
    out,        \* what has been written to stream
    pc          \* "loop" while in the for loop, "done" after return

vars == <<list, i, in_range, last, out, pc>>

\* Info::Print passes a node's shards or future shards, only when the list
\* is not empty; a node's shard ids are distinct.
Inputs == {l \in BoundedSeq(Id, MaxLen) : l # <<>> /\ IsInjective(l)}

\* The characters of the stream.
DigitChar == <<"0", "1", "2", "3", "4", "5", "6", "7", "8", "9">>

\* stream << n for an int n >= 0: its decimal digits, most significant first.
RECURSIVE Decimal(_)
Decimal(n) ==
    IF n < 10 THEN <<DigitChar[n + 1]>>
    ELSE Decimal(n \div 10) \o <<DigitChar[(n % 10) + 1]>>

Init ==
    /\ list \in Inputs
    /\ i = 1
    /\ in_range = FALSE
    /\ last = list[1]
    /\ out = <<>>
    /\ pc = "loop"

\* Mutant: a broken range is not closed with "-last".
Emit_noClose(n) ==
    CASE n = list[1] -> Decimal(n)
      [] ~in_range /\ n # last + 1 -> <<",">> \o Decimal(n)
      [] in_range /\ n # last + 1 -> <<",">> \o Decimal(n)
      [] OTHER -> <<>>

\* What the body of the loop writes for element n.
Emit(n) ==
    CASE n = list[1] -> Decimal(n)
      [] ~in_range /\ n # last + 1 -> <<",">> \o Decimal(n)
      [] in_range /\ n # last + 1 -> <<"-">> \o Decimal(last) \o <<",">> \o Decimal(n)
      [] OTHER -> <<>>

\* One iteration of the for loop, last = n included. A range opens when n
\* follows last and closes when it does not; the first element (compared by
\* value with list[0]) leaves it as it is.
Step ==
    LET n == list[i] IN
    /\ pc = "loop" /\ i <= Len(list)
    /\ out' = out \o Emit(n)
    /\ in_range' = IF n = list[1] THEN in_range ELSE n = last + 1
    /\ last' = n
    /\ i' = i + 1
    /\ UNCHANGED <<list, pc>>

\* After the loop: finish the last open range, and return.
Finish ==
    /\ pc = "loop" /\ i > Len(list)
    /\ out' = out \o (IF in_range THEN <<"-">> \o Decimal(last) ELSE <<>>)
    /\ pc' = "done"
    /\ UNCHANGED <<list, i, in_range, last>>

Next == Step \/ Finish

Spec == Init /\ [][Next]_vars

-----------------------------------------------------------------------------
(* The reference definition, from the comment at cluster_impl.h:88-91.     *)

\* The maximal runs of l, each as <<from, to>>: a run goes on while every
\* element is one more than the one before it.
RECURSIVE Runs(_)
Runs(l) ==
    IF l = <<>> THEN <<>>
    ELSE LET rest == Runs(Tail(l)) IN
         IF rest # <<>> /\ Head(rest)[1] = Head(l) + 1
         THEN <<<<Head(l), Head(rest)[2]>>>> \o Tail(rest)
         ELSE <<<<Head(l), Head(l)>>>> \o rest

\* The numeral of a shard id below 100: one digit, or the tens and the units.
ASSUME \A n \in Id : n \in 0..99
Numeral(n) ==
    IF n < 10 THEN <<DigitChar[n + 1]>>
    ELSE <<DigitChar[(n \div 10) + 1], DigitChar[(n % 10) + 1]>>

RangeText(r) ==
    IF r[1] = r[2] THEN Numeral(r[1]) ELSE Numeral(r[1]) \o <<"-">> \o Numeral(r[2])

Reference(l) ==
    LET rs == Runs(l)
    IN FlattenSeq([j \in 1..Len(rs) |->
                     (IF j = 1 THEN <<>> ELSE <<",">>) \o RangeText(rs[j])])

-----------------------------------------------------------------------------
(* Properties.                                                             *)

\* What ListToString returns is the list written as its maximal ranges, in
\* order: every range that the loop opens it also closes with "-last",
\* whether a gap or the end of the list closes it, and numbers of several
\* digits come out as their digits.
ListToStringCorrect == pc = "done" => out = Reference(list)
=============================================================================
