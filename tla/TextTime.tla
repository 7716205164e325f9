------------------------------ MODULE TextTime -------------------------------
(***************************************************************************)
(* Times, as the program computes with them and as the database keeps and  *)
(* compares them: RFC 3339 text, in which Go leaves out the trailing zeros *)
(* of the fraction of a second (timeFmt, internal/storage/sqlite.go).      *)
(* "05Z" sorts after "05.1Z", and that after "05.12Z", since 'Z' is        *)
(* greater than '.' and than every digit.                                  *)
(***************************************************************************)
EXTENDS Integers

CONSTANTS
    Places,     \* digits of the fraction of a second: 9
    Second      \* a second, in units of the last of them

ASSUME TimeAssumption ==
    /\ Places \in Nat \ {0}
    /\ Second \in Nat \ {0} /\ Second = 10^Places

Time == [sec : Nat, ns : 0..(Second - 1)]

\* A time as a number, and back; durations are added and compared in numbers.
Instant(t) == t.sec * Second + t.ns

AtInstant(n) == [sec |-> n \div Second, ns |-> n % Second]

Before(t, u) == Instant(t) < Instant(u)

\* The i-th character of a fraction: a digit, or 10 from where only zeros are left - there the
\* letter ends the text, or no character is.
Character(ns, i) ==
    IF ns % 10^(Places - i + 1) = 0 THEN 10 ELSE (ns \div 10^(Places - i)) % 10

\* The order of the text: by the second, then by the first character that differs.
TextBefore(t, u) ==
    \/ t.sec < u.sec
    \/ /\ t.sec = u.sec
       /\ \E i \in 1..Places :
             /\ Character(t.ns, i) < Character(u.ns, i)
             /\ \A j \in 1..(i - 1) : Character(t.ns, j) = Character(u.ns, j)
=============================================================================
