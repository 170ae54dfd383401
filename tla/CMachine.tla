------------------------------ MODULE CMachine ------------------------------
(***************************************************************************)
(* What a run of a function can be seen to do: the calls it makes, the     *)
(* memory it leaves and the value it returns.  External: hardware and the  *)
(* functions of other objects.  A value in memory, in a call or returned   *)
(* is a number of some width, an address, a float or a structure.          *)
(***************************************************************************)
EXTENDS Integers, Sequences
LOCAL INSTANCE Bitwise

Bits(w, v) == [ty |-> "int", w |-> w, v |-> v % 2^w]
Addr(a) == [ty |-> "ptr", v |-> a]
Flt(n) == [ty |-> "float", v |-> n]
\* The address of a text.
Str(s) == [ty |-> "text", v |-> s]
Agg(s, fields) == [ty |-> s, v |-> fields]
SameType(a, b) == [a EXCEPT !.v = 0] = [b EXCEPT !.v = 0]

\* Of two numbers of some width, bit by bit.
BitAnd(a, b) == a & b
BitOr(a, b) == a | b
BitXor(a, b) == a ^^ b

\* A number of w bits, read as signed.
ToSigned(w, n) == IF n >= 2^(w - 1) THEN n - 2^w ELSE n

\* A run under way.  status is "run", then "break" or "continue" up to the
\* loop it leaves or restarts, "ret" at the end; "ub" for undefined
\* behaviour, "cut" for a run given up, "refused" for code that does not
\* build.
Start(vars, mem, fuel) ==
    [status |-> "run", vars |-> vars, mem |-> mem, trace |-> <<>>, fuel |-> fuel, v |-> 0]
Running(s) == s.status = "run"
Stop(s, why) == IF Running(s) THEN [s EXCEPT !.status = why] ELSE s

ReadCell(s, key) ==
    IF key \in DOMAIN s.mem THEN [s EXCEPT !.v = s.mem[key]] ELSE Stop(s, "ub")
WriteCell(s, key, cell) ==
    IF key \in DOMAIN s.mem THEN [s EXCEPT !.mem[key] = cell] ELSE Stop(s, "ub")

\* A call is recorded; the number of calls before it is what it returns.
DoCall(s, f, args) ==
    IF Running(s) THEN [s EXCEPT !.trace = Append(@, <<f, args>>), !.v = Len(s.trace)] ELSE s

\* One iteration is paid for; a loop given up stops the run.
Burn(s) == IF s.fuel = 0 THEN Stop(s, "cut") ELSE [s EXCEPT !.fuel = @ - 1]

Outcome(s) == [status |-> s.status, trace |-> s.trace, mem |-> s.mem,
               v |-> IF s.status = "ret" THEN <<s.v>> ELSE <<>>]
=============================================================================
