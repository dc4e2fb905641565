-------------------------- MODULE MCDetachTrigger --------------------------
(* Small instances of DetachTrigger for TLC. *)
EXTENDS DetachTrigger, TLC

CtrlKey(key) == [mods |-> <<"ctrl">>, key |-> <<key>>]
Kitty(key)   == <<27, 91, CodeOf(key), 117>>

\* The default, Ctrl+\; Ctrl+[, whose byte is Escape; a letter; a digit, which has
\* no control byte of its own; and keys that may not be configured.
Terminal ==
     (CtrlKey(92) :> {<<28>>, Kitty(92)})
  @@ (CtrlKey(91) :> {<<27>>, Kitty(91)})
  @@ (CtrlKey(97) :> {<<1>>, Kitty(97)})
  @@ (CtrlKey(49) :> {Kitty(49)})
  @@ ([mods |-> <<"ctrl", "shift">>, key |-> <<97>>] :> {})
  @@ ([mods |-> <<"ctrl", "hyper">>, key |-> <<97>>] :> {})
  @@ ([mods |-> <<"alt">>, key |-> <<97>>] :> {})
  @@ ([mods |-> <<>>, key |-> <<97>>] :> {})
  @@ ([mods |-> <<"ctrl">>, key |-> <<102, 49>>] :> {})
  @@ ([mods |-> <<"ctrl">>, key |-> <<233>>] :> {})
Keys == DOMAIN Terminal

\* A capital letter: a terminal reports the key, which is the small one.
Capital     == CtrlKey(66) :> {<<2>>, Kitty(98)}
CapitalOnly == DOMAIN Capital

\* What is proved of MatchSound is of the keys that are not capitals.
ASSUME AsParsed <=> Specs = Keys
=============================================================================
