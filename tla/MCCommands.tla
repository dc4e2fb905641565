----------------------------- MODULE MCCommands -----------------------------
(* Small instances of Commands for TLC. *)
EXTENDS Commands

\* config.toml: a terminal command with a title, or one with an unknown placeholder;
\* the default detach key, or one that is refused.
Backslash == 92
Key(mods) == [mods |-> mods, key |-> <<Backslash>>]
Template(hole) == << <<"kitty">>, <<"title=", "{", hole, "}">>, <<"{", "name", "}">> >>
File(hole, mods) == [parses |-> TRUE, key |-> Key(mods), template |-> Template(hole)]
Sound     == File("name", <<"ctrl">>)
BadHole   == File("branch", <<"ctrl">>)
BadKey    == File("name", <<"ctrl", "shift">>)
NoSection == [Sound EXCEPT !.template = NoTemplate]
Garbled   == [Sound EXCEPT !.parses = FALSE]

Cmd(verb, name, how) == [verb |-> verb, name |-> name, how |-> how]
Plain(verbs, name) == {Cmd(v, name, "plain") : v \in verbs}
Runs(names)  == {Cmd("run", n, h) : n \in names, h \in {"attach", "detach", "spawn"}}
Sends        == {Cmd("send", "a", h) : h \in {"one", "two"}}
Downs        == {Cmd(v, "", h) : v \in {"stop", "restart"}, h \in {"polite", "force"}}

Everything ==
  Runs({"a"}) \cup Sends \cup Downs
  \cup Plain({"register", "rm", "view", "attach", "event"}, "a")
  \cup Plain({"clean", "ls", "complete"}, "")
  \cup {Cmd("run", "self", "detach"), Cmd("run", "b d", "detach"), Cmd("register", "b d", "plain"),
        Cmd("event", "", "plain"), Cmd("event", "b d", "plain")}
OneName == {"a", "self"}

RestartOnly == {Cmd("restart", "", "polite"), Cmd("ls", "", "plain")}
HookOnly    == Plain({"event"}, "a")
AttachOnly  == {Cmd("run", "a", "attach")}
Contended   == AttachOnly \cup {Cmd("run", "a", "detach"), Cmd("rm", "a", "plain"), Cmd("send", "a", "two")}
SoundOnly   == {Sound}
Refusable   == {Sound, BadKey}
AnyFile     == {Sound, BadHole, BadKey, NoSection, Garbled}
=============================================================================
