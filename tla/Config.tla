------------------------------- MODULE Config -------------------------------
(***************************************************************************)
(* What picoswarm makes of the user's words (src/src/config.rs, and the    *)
(* two checks of an agent's name): the detach key, the [spawn] template.   *)
(*                                                                         *)
(* A character is its code point.  The decimal digits of a key's code and  *)
(* the ";5" after them are one symbol, CodeOf(key).  A key specification   *)
(* is what is left of the text between the "+" signs, trimmed, modifiers   *)
(* in lower case.  An element of a template is a sequence of words; the    *)
(* word "name" is one.                                                     *)
(***************************************************************************)
EXTENDS Naturals, SequencesExt

NoByte == 1000  \* no byte
Escape == 27
Bracket == 91   \* [
FinalU == 117   \* u
CodeOf(key) == 2000 + key

\* ctrl_raw_byte.  (Faulty: Ctrl+A is 0.)
CtrlFromZero(key) == IF key \in 97..122 THEN key - 97 ELSE NoByte
CtrlRawByte(key) ==
  CASE key \in 97..122 -> key - 96     \* a letter
    [] key \in 64..95  -> key - 64     \* @, a capital letter, [ \ ] ^ _
    [] key = 63        -> 127          \* ?
    [] OTHER           -> NoByte

CtrlNames  == {"ctrl", "control"}
OtherNames == {"shift", "alt", "meta", "option", "super", "cmd", "win"}

Rejected == [ok |-> FALSE, raw |-> NoByte, csiU |-> <<>>]
Accepted(key) ==
  [ok |-> TRUE, raw |-> CtrlRawByte(key),
   csiU |-> <<Escape, Bracket, CodeOf(key), FinalU>>]

\* (Faulty: modifiers beside Ctrl are ignored.)
AnyWithCtrl(spec) ==
  IF /\ \E i \in DOMAIN spec.mods : spec.mods[i] \in CtrlNames
     /\ Len(spec.key) = 1 /\ spec.key[1] < 128
    THEN Accepted(spec.key[1]) ELSE Rejected
\* parse_detach_key: Ctrl, nothing but Ctrl, and one ASCII character.
ParseDetachKey(spec) ==
  IF /\ spec.mods # <<>> /\ Range(spec.mods) \subseteq CtrlNames
     /\ Len(spec.key) = 1 /\ spec.key[1] < 128
    THEN Accepted(spec.key[1]) ELSE Rejected

-----------------------------------------------------------------------------
\* substitute_element: outside of braces words are copied, "{name}" is replaced,
\* any other placeholder is an error, and so is one that is not closed.  The
\* scan has made out of the words so far, and is outside of the braces, or inside
\* with the placeholder read so far.
Open  == "{"
Close == "}"
Outside(out, ok)      == [inside |-> FALSE, out |-> out, hole |-> <<>>, ok |-> ok]
Inside(out, hole, ok) == [inside |-> TRUE, out |-> out, hole |-> hole, ok |-> ok]
Scan(s, word, name) ==
  CASE ~s.inside /\ word # Open -> Outside(Append(s.out, word), s.ok)
    [] ~s.inside /\ word = Open -> Inside(s.out, <<>>, s.ok)
    [] s.inside /\ word # Close -> Inside(s.out, Append(s.hole, word), s.ok)
    [] s.inside /\ word = Close -> Outside(Append(s.out, name), s.ok /\ s.hole = <<"name">>)
SubstituteElement(element, name) ==
  LET after[k \in 0..Len(element)] ==
        IF k = 0 THEN Outside(<<>>, TRUE) ELSE Scan(after[k-1], element[k], name)
      end == after[Len(element)]
  IN  [ok |-> end.ok /\ ~end.inside, text |-> end.out]

NoArgv == [ok |-> FALSE, argv |-> <<>>]

\* resolve_spawn_argv, for a name without NUL and newline (it has passed
\* validate_name): element by element, and there is a program to run.
\* (Faulty: an element with an unknown placeholder is left as it is.)
ResolveLenient(template, name) ==
  LET parts == [i \in DOMAIN template |-> SubstituteElement(template[i], name)] IN
  IF template # <<>> /\ parts[1].text # <<>>
    THEN [ok |-> TRUE, argv |-> [i \in DOMAIN template |-> parts[i].text]]
    ELSE NoArgv
ResolveSpawnArgv(template, name) ==
  LET parts == [i \in DOMAIN template |-> SubstituteElement(template[i], name)] IN
  IF /\ \A i \in DOMAIN template : parts[i].ok
     /\ template # <<>> /\ parts[1].text # <<>>
    THEN [ok |-> TRUE, argv |-> [i \in DOMAIN template |-> parts[i].text]]
    ELSE NoArgv
=============================================================================
