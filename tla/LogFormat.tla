------------------------------ MODULE LogFormat ------------------------------
(***************************************************************************)
(* The two overloads of Logger::log() (src/unnamed/part_004), which push a *)
(* format string onto the queue character by character, with each '%'     *)
(* replaced by the next argument and "%%" by a literal '%', and end the    *)
(* process with FATAL when the arguments and the placeholders do not pair  *)
(* up.                                                                     *)
(*                                                                         *)
(* A format is a sequence over {"%", "c"}, where "c" stands for any other  *)
(* character; argument k is the value ArgVal[k].  A call's result is the   *)
(* sequence of elements it pushed and the FATAL it ended in, if any: the   *)
(* elements pushed before a FATAL stay in the queue.                       *)
(***************************************************************************)
EXTENDS Naturals, Sequences, FiniteSets

CONSTANTS
  MaxLen,     \* longest format string
  ArgVal      \* ArgVal[k]: the k-th argument of a call; Len(ArgVal) is the
              \* most arguments a call passes

Char == {"%", "c"}

\* The arguments are distinct from one another and from the characters.
ASSUME ArgValAssumption ==
  /\ ArgVal \in Seq({ArgVal[k] : k \in DOMAIN ArgVal})
  /\ \A j, k \in DOMAIN ArgVal : j # k => ArgVal[j] # ArgVal[k]
  /\ \A k \in DOMAIN ArgVal : ArgVal[k] \notin Char

MaxArgs == Len(ArgVal)

Format == UNION {[1 .. n -> Char] : n \in 0 .. MaxLen}

\* The arguments of a call with n of them.
Args(n) == SubSeq(ArgVal, 1, n)

\* pushValue(x) followed by the rest of the call.
Emit(x, r) == [r EXCEPT !.pushed = <<x>> \o @]

\* The format's next two characters are "%%": the test *(s + 1) == '%'.
Escaped(s) == Len(s) > 1 /\ s[2] = "%"

RECURSIVE Log(_, _), LogArgs(_, _), LogNoArgs(_)

\* Bug variant of LogNoArgs: "%%" is not treated as an escape.
LogNoArgsNoEscape(s) ==
  CASE s = <<>>     -> [pushed |-> <<>>, fatal |-> "none"]
    [] Head(s) = "%" -> [pushed |-> <<>>, fatal |-> "missing"]
    [] OTHER         -> Emit(Head(s), LogNoArgs(Tail(s)))

(***************************************************************************)
(* log(const char *s): no argument is left.  "%%" pushes one '%' (the    *)
(* ++s and then the pushValue of the next character); any other '%' is   *)
(* FATAL("missing arguments").                                           *)
(***************************************************************************)
LogNoArgs(s) ==
  CASE s = <<>>                    -> [pushed |-> <<>>, fatal |-> "none"]
    [] Head(s) = "%" /\ Escaped(s) -> Emit("%", LogNoArgs(Tail(Tail(s))))
    [] Head(s) = "%"               -> [pushed |-> <<>>, fatal |-> "missing"]
    [] OTHER                       -> Emit(Head(s), LogNoArgs(Tail(s)))

(***************************************************************************)
(* log(const char *s, const T &value, A... args): the first '%' that is    *)
(* not "%%" pushes value and hands the rest of the format and of the       *)
(* arguments to the next overload (log(s + 1, args...)); a format that     *)
(* ends first is FATAL("extra arguments").                                 *)
(***************************************************************************)
LogArgs(s, args) ==
  CASE s = <<>>                    -> [pushed |-> <<>>, fatal |-> "extra"]
    [] Head(s) = "%" /\ Escaped(s) -> Emit("%", LogArgs(Tail(Tail(s)), args))
    [] Head(s) = "%"               -> Emit(Head(args), Log(Tail(s), Tail(args)))
    [] OTHER                       -> Emit(Head(s), LogArgs(Tail(s), args))

\* Overload resolution: log(s, args...) with args empty is log(const char *).
Log(s, args) == IF args = <<>> THEN LogNoArgs(s) ELSE LogArgs(s, args)

-----------------------------------------------------------------------------
(***************************************************************************)
(* The reference: spec 4.3 read as a tokenizer.  Scanning left to right, a *)
(* "%%" is a literal '%' and any other '%' is a placeholder; the call      *)
(* succeeds when there are as many placeholders as arguments, and then     *)
(* pushes the literals with the k-th placeholder replaced by argument k.   *)
(***************************************************************************)
RECURSIVE Tokens(_)
Tokens(s) ==
  CASE s = <<>>                    -> <<>>
    [] Head(s) = "%" /\ Escaped(s) -> <<[hole |-> FALSE, ch |-> "%"]>> \o Tokens(Tail(Tail(s)))
    [] Head(s) = "%"               -> <<[hole |-> TRUE, ch |-> "%"]>> \o Tokens(Tail(s))
    [] OTHER                       -> <<[hole |-> FALSE, ch |-> Head(s)]>> \o Tokens(Tail(s))

\* The number of placeholders among the first j tokens.
HolesUpTo(t, j) == Cardinality({i \in 1 .. j : t[i].hole})

Holes(t) == HolesUpTo(t, Len(t))

Expected(s, n) ==
  LET t == Tokens(s)
  IN [i \in 1 .. Len(t) |-> IF t[i].hole THEN ArgVal[HolesUpTo(t, i)] ELSE t[i].ch]

VARIABLES
  fmt,        \* the format of the last call of log()
  nargs,      \* its number of arguments
  result      \* what the call pushed and how it ended

vars == <<fmt, nargs, result>>

Init ==
  /\ fmt = <<>>
  /\ nargs = 0
  /\ result = Log(<<>>, <<>>)

\* The application calls log(s, args...).
CallLog ==
  \E s \in Format, n \in 0 .. MaxArgs :
    /\ fmt' = s
    /\ nargs' = n
    /\ result' = Log(s, Args(n))

Spec == Init /\ [][CallLog]_vars

-----------------------------------------------------------------------------

(***************************************************************************)
(* Spec 4.3 and 8: log() pushes exactly the format with its placeholders   *)
(* filled in order when the arguments match the placeholders, ends in      *)
(* FATAL("extra arguments") when arguments are left over and in            *)
(* FATAL("missing arguments") when a placeholder has none -- including     *)
(* formats that end in '%' or mix "%%" with placeholders.                  *)
(***************************************************************************)
LogMatchesSpec ==
  LET h == Holes(Tokens(fmt))
  IN /\ h = nargs => result = [pushed |-> Expected(fmt, nargs), fatal |-> "none"]
     /\ h < nargs => result.fatal = "extra"
     /\ h > nargs => result.fatal = "missing"

=============================================================================
