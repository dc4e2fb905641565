--------------------------- MODULE DetachTrigger ---------------------------
(***************************************************************************)
(* The keystrokes of an attached user (src/src/client/attach.rs): the      *)
(* thread that reads the terminal looks for the detach key in what it read *)
(* and forwards the rest.  The key comes in two encodings (config.rs), a   *)
(* single control byte and a CSI-u sequence, and read() may cut what was   *)
(* typed anywhere, also within the sequence.                               *)
(***************************************************************************)
EXTENDS Config, FiniteSetsExt

CONSTANTS
  Specs,    \* the detach keys the configuration may name
  Sent,     \* Sent[s]: the sequences a terminal sends for the key s; {} if s is
            \*   no key that may be configured
  Other,    \* another byte
  MaxRead,  \* bound: bytes one read() returns
  MaxTyped  \* bound: bytes typed

ASSUME TriggerAssumption ==
  /\ \A s \in Specs : s \in [mods : Seq(STRING), key : Seq(Nat)] /\ Sent[s] \subseteq Seq(Nat)
  /\ Other \in 0..255
  /\ MaxRead \in Nat \ {0} /\ MaxTyped \in Nat

VARIABLES
  spec,       \* the key in config.toml
  typed,      \* all that read() has returned so far
  leftover,   \* held back between two reads
  forwarded,  \* the bytes of the Stdin messages sent, in order
  state       \* "reading", "detached" (Detach was sent), "eof";
              \*   "refused": the configuration is in error

vars == <<spec, typed, leftover, forwarded, state>>

\* The trigger that attach::run hands to the thread.
RawByte == ParseDetachKey(spec).raw
CsiU    == ParseDetachKey(spec).csiU

\* What may be typed: the key, anything that begins like it, anything else.
Bytes == {Other} \cup UNION {Range(keys) : keys \in Sent[spec]}

TypeOK ==
  /\ spec \in Specs
  /\ typed \in Seq(Bytes) /\ forwarded \in Seq(Bytes)
  /\ leftover \in Seq(Bytes) /\ Len(leftover) <= Len(CsiU)
  /\ state \in {"reading", "detached", "eof", "refused"}
  /\ (state = "refused") <=> ~ParseDetachKey(spec).ok

\* attach::run reads the configuration first.
Init ==
  /\ spec \in Specs
  /\ typed = <<>> /\ leftover = <<>> /\ forwarded = <<>>
  /\ state = IF ParseDetachKey(spec).ok THEN "reading" ELSE "refused"

\* find_detach_trigger: where an encoding of the key starts in bytes, if any.
Triggers(bytes) ==
  {i \in DOMAIN bytes :
     bytes[i] = RawByte \/ IsPrefix(CsiU, SubSeq(bytes, i, Len(bytes)))}
Upto(bytes) == SubSeq(bytes, 1, Min(Triggers(bytes)) - 1)

\* partial_prefix_at_end: how many bytes at the end may be the key arriving.
\* (Faulty: none; or all that follows an escape byte.)
NothingHeld(bytes) == 0
HeldFromEscape(bytes) ==
  LET escapes == {i \in DOMAIN bytes : bytes[i] = CsiU[1]}
  IN  IF escapes = {} THEN 0 ELSE Len(bytes) + 1 - Max(escapes)
HeldBack(bytes) ==
  LET ends == {k \in 1..Len(CsiU) : IsSuffix(SubSeq(CsiU, 1, k), bytes)}
  IN  IF ends = {} THEN 0 ELSE Max(ends)

\* (Faulty: what was held back is not put in front of the next read.)
ReadForgets(chunk) ==
  LET split == Len(chunk) - HeldBack(chunk) IN
  /\ state = "reading"
  /\ UNCHANGED spec
  /\ typed' = typed \o chunk
  /\ IF Triggers(chunk) # {}
       THEN /\ forwarded' = forwarded \o Upto(chunk)
            /\ leftover' = <<>>
            /\ state' = "detached"
       ELSE /\ forwarded' = forwarded \o SubSeq(chunk, 1, split)
            /\ leftover' = SubSeq(chunk, split + 1, Len(chunk))
            /\ UNCHANGED state

\* One turn of stdin_loop.
Read(chunk) ==
  LET combined == leftover \o chunk
      split == Len(combined) - HeldBack(combined)
  IN
  /\ state = "reading"
  /\ UNCHANGED spec
  /\ typed' = typed \o chunk
  /\ IF Triggers(combined) # {}
       THEN /\ forwarded' = forwarded \o Upto(combined)
            /\ leftover' = <<>>
            /\ state' = "detached"
       ELSE /\ forwarded' = forwarded \o SubSeq(combined, 1, split)
            /\ leftover' = SubSeq(combined, split + 1, Len(combined))
            /\ UNCHANGED state

\* The terminal is gone: the thread returns with what it held.
Eof ==
  /\ state = "reading"
  /\ state' = "eof"
  /\ UNCHANGED <<spec, typed, leftover, forwarded>>

Next ==
  \/ \E n \in 1..MaxRead : \E chunk \in [1..n -> Bytes] :
       Len(typed) + n <= MaxTyped /\ Read(chunk)
  \/ Eof

Spec == Init /\ [][Next]_vars

-----------------------------------------------------------------------------
\* A terminal sends for every key just what parse_detach_key derives from it.  (Not
\* so for a capital letter: it sends the small one's.)
AsParsed ==
  \A s \in Specs :
    LET trigger == ParseDetachKey(s) IN
    Sent[s] = IF trigger.ok
                THEN {trigger.csiU} \cup {<<byte>> : byte \in {trigger.raw} \ {NoByte}}
                ELSE {}

\* Where a sequence of the key is complete.
Ends == {e \in DOMAIN typed : \E keys \in Sent[spec] : IsSuffix(keys, SubSeq(typed, 1, e))}

\* The user detaches exactly when the terminal has sent the configured key, in
\* either encoding, and the agent is sent what was typed before the key, all of
\* it and nothing of the key, as if one read had returned everything: the cuts do
\* not show.  What is not a key that may be configured attaches nobody
\* (attach.rs, stdin_loop; config.rs, parse_detach_key).
CutsDoNotShow ==
  /\ (Ends # {}) <=> (state = "detached")
  /\ state = "detached" =>
       \E keys \in Sent[spec] :
         /\ IsPrefix(forwarded \o keys, typed)
         /\ \A e \in Ends : e > Len(forwarded)
  /\ Sent[spec] = {} => state = "refused"

\* Until then, what was not forwarded is held in order, and only as long as it
\* may be the beginning of the key (attach.rs, partial_prefix_at_end).
HeldIsKeyPrefix ==
  state \in {"reading", "eof"} =>
                        /\ typed = forwarded \o leftover
                        /\ IsStrictPrefix(leftover, CsiU)

\* The two together: whatever read() cuts, nothing typed before the key is lost,
\* doubled or kept, and nothing but the key detaches (attach.rs, stdin_loop).
MatchSound == CutsDoNotShow /\ HeldIsKeyPrefix

\* Every keystroke is forwarded.  (It is not: the beginning of the key is held
\* back until the next read, attach.rs, stdin_loop.)
EveryKeyForwarded == state = "reading" => forwarded = typed
=============================================================================
