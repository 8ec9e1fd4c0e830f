------------------------------ MODULE Records ------------------------------
(***************************************************************************)
(* The directory of records of wkb.py: `seal` writes a record under an id    *)
(* it draws, with no lock and not at once, and may be killed or run out of  *)
(* disk; `check`, `ls` and `bridge` read what is there at the time.  Two    *)
(* seals may draw the same id, of which a day has 65536.                    *)
(*                                                                         *)
(* A text is a sequence of tokens: "rule" is `---`, "nl" an end of line,     *)
(* "cr" a carriage return, "half" a character cut in two, "nul" the hole a   *)
(* write beyond the end of a file leaves, "word" anything else; the name of  *)
(* a seal is its `sha:` line, the sha of the body it was given.  Only a body *)
(* that comes from the command line has a "cr": what is read from a file or  *)
(* from stdin has lost it, and yaml escapes it.                             *)
(*                                                                         *)
(* A definition named Slip... is a mistake a change of wkb.py could make, in *)
(* the place of the definition after it.                                    *)
(***************************************************************************)
EXTENDS Naturals, FiniteSets, SequencesExt

CONSTANTS
  Seals,   \* the processes that seal
  Ids,     \* the ids they may draw
  Bodies,  \* the bodies they may be given
  NoId,    \* the id of a seal that has not drawn one
  Absent   \* the content of a file that is not there

Tokens == {"rule", "nl", "cr", "word", "half", "nul"} \cup Seals

ASSUME RecordsAssumption ==
  /\ NoId \notin Ids /\ Absent \notin Seq(Tokens)
  /\ Seals \cap {"rule", "nl", "cr", "word", "half", "nul"} = {}
  /\ Bodies \subseteq Seq({"rule", "nl", "cr", "word"})

VARIABLES
  pc,      \* per seal, how far it has come
  id,      \* the id it has drawn
  header,  \* its frontmatter, rendered
  body,    \* its body
  at,      \* how much of its text it has written
  file,    \* per id, what <id>.md holds
  ls,      \* where a `ls` is
  todo,    \* the files it has yet to read
  listing, \* per id, what it says of the file
  before   \* the seals that had returned when it began

sealVars == <<pc, id, header, body, at>>
lsVars == <<ls, todo, listing, before>>
vars == <<sealVars, file, lsVars>>

TypeOK ==
  /\ pc \in [Seals -> {"idle", "refused", "opening", "writing", "sealed", "dead"}]
  /\ id \in [Seals -> Ids \cup {NoId}]
  /\ header \in [Seals -> Seq(Tokens)] /\ body \in [Seals -> Seq(Tokens)]
  /\ at \in [Seals -> Nat]
  /\ file \in [Ids -> Seq(Tokens) \cup {Absent}]
  /\ ls \in {"idle", "reading", "done", "traceback"}
  /\ todo \subseteq Ids /\ before \subseteq Seals
  /\ listing \in [Ids -> {"unlisted", "ok", "sha mismatch", "UNREADABLE"}]

Init ==
  /\ pc = [s \in Seals |-> "idle"] /\ id = [s \in Seals |-> NoId]
  /\ header = [s \in Seals |-> <<>>] /\ body = [s \in Seals |-> <<>>]
  /\ at = [s \in Seals |-> 0]
  /\ file = [i \in Ids |-> Absent]
  /\ ls = "idle" /\ todo = {} /\ before = {}
  /\ listing = [i \in Ids |-> "unlisted"]

-----------------------------------------------------------------------------
(* The codec *)

\* body.rstrip("\n") + "\n", as cmd_seal has it.
Normal(b) == Append(SubSeq(b, 1, SelectLastInSeq(b, LAMBDA t : t # "nl")), "nl")

\* lstrip("\n"), as split_record has it.
LStrip(b) ==
  LET first == SelectInSeq(b, LAMBDA t : t # "nl")
  IN  IF first = 0 THEN <<>> ELSE SubSeq(b, first, Len(b))

\* What a user types comes before the sha (agent, topic) and after it (source, regime,
\* raw), and any of it may hold a `---`, which yaml does not change.
Headers(s) == {<<"word", s>>, <<"rule", s>>, <<"word", s, "rule", "word", "rule", "nl">>}

render_record(h, b) == <<"rule", "nl">> \o h \o <<"rule", "nl">> \o b

Text(s) == render_record(header[s], body[s])

Rules(text) == {k \in 1..Len(text) : text[k] = "rule"}

\* Slip: rsplit() for split().
SlipClose(text) == SelectLastInSeq(text, LAMBDA t : t = "rule")

\* text.split("---", 2): the record ends its header at the second rule it has.
Close(text) == SelectInSeq(Tail(text), LAMBDA t : t = "rule") + 1
Header(text) == SubSeq(text, 2, Close(text) - 1)
Body(text) == LStrip(SubSeq(text, Close(text) + 1, Len(text)))

\* read_text() finds UTF-8, ...
Decodes(content) == ~Contains(content, "half")

\* ... and gives every line the same end: a "cr" is one, and takes the "nl" after it in.
ReadText(content) ==
  LET Taken == {k \in 2..Len(content) : content[k - 1] = "cr" /\ content[k] = "nl"}
      Kept == (1..Len(content)) \ Taken
      Nth(n) == CHOOSE k \in Kept : Cardinality({j \in Kept : j <= k}) = n
  IN  IF ~Contains(content, "cr") THEN content
      ELSE [n \in 1..Cardinality(Kept) |-> IF content[Nth(n)] = "cr" THEN "nl" ELSE content[Nth(n)]]

\* In what it returns split_record finds a header; where that is cut in a quoted value,
\* yaml may object, or return a header without what follows.
Splits(text) == text # <<>> /\ Head(text) = "rule" /\ Cardinality(Rules(text)) > 1

\* The last `sha:` line of a header is the one that counts.
Sha(text) == SelectLastInSeq(Header(text), LAMBDA t : t \in Seals)

\* Slip: where there is no body, nothing is compared.
SlipPasses(content) ==
  LET text == ReadText(content) IN
  /\ Decodes(content) /\ Splits(text)
  /\ Sha(text) # 0 /\ Body(text) \in {<<>>, body[Header(text)[Sha(text)]]}

\* What `check` passes, `ls` does not flag and `bridge` translates: the header has a
\* sha, and it is that of the body.  The other fields are those a seal has validated.
Passes(content) ==
  LET text == ReadText(content) IN
  /\ Decodes(content) /\ Splits(text)
  /\ Sha(text) # 0 /\ Body(text) = body[Header(text)[Sha(text)]]

-----------------------------------------------------------------------------
(* cmd_seal; cmd_dispatch seals in the same way *)

GoesTo(s, c) == pc' = [pc EXCEPT ![s] = c]

\* A --parent, --regime, --interpretation, --type or --status that is not valid.
Refuses(s) ==
  /\ pc[s] = "idle"
  /\ GoesTo(s, "refused")
  /\ UNCHANGED <<id, header, body, at, file, lsVars>>

Begins(s) ==
  /\ pc[s] = "idle"
  /\ \E i \in Ids : id' = [id EXCEPT ![s] = i]
  /\ \E h \in Headers(s) : header' = [header EXCEPT ![s] = h]
  /\ \E b \in Bodies : body' = [body EXCEPT ![s] = Normal(b)]
  /\ GoesTo(s, "opening")
  /\ UNCHANGED <<at, file, lsVars>>

\* write_text(): the file is made, or emptied if there is one, ...
Opens(s) ==
  /\ pc[s] = "opening"
  /\ file' = [file EXCEPT ![id[s]] = <<>>]
  /\ GoesTo(s, "writing")
  /\ UNCHANGED <<id, header, body, at, lsVars>>

\* What a file holds once tokens a..b of a text are written to it in their place.
Written(old, text, a, b) ==
  [k \in 1..(IF Len(old) > b THEN Len(old) ELSE b) |->
     IF k \in a..b THEN text[k] ELSE IF k <= Len(old) THEN old[k] ELSE "nul"]

\* ... and filled by one write or more, each of a buffer: ...
Writes(s) ==
  /\ pc[s] = "writing"
  /\ \E n \in (at[s] + 1)..Len(Text(s)) :
       /\ file' = [file EXCEPT ![id[s]] = Written(@, Text(s), at[s] + 1, n)]
       /\ at' = [at EXCEPT ![s] = n]
       /\ GoesTo(s, IF n = Len(Text(s)) THEN "sealed" ELSE "writing")
  /\ UNCHANGED <<id, header, body, lsVars>>

\* ... which need not end with a whole character.
Cuts(s) ==
  /\ pc[s] = "writing"
  /\ \E n \in (at[s] + 1)..Len(Text(s)) :
       /\ Text(s)[n] = "word"
       /\ file' = [file EXCEPT ![id[s]] =
                     Written(@, [Text(s) EXCEPT ![n] = "half"], at[s] + 1, n)]
       /\ at' = [at EXCEPT ![s] = n - 1]
  /\ UNCHANGED <<pc, id, header, body, lsVars>>

\* Killed, or an OSError that nothing catches.
Dies(s) ==
  /\ pc[s] \in {"opening", "writing"}
  /\ GoesTo(s, "dead")
  /\ UNCHANGED <<id, header, body, at, file, lsVars>>

-----------------------------------------------------------------------------
(* cmd_ls *)

LsBegins ==
  /\ ls = "idle"
  /\ ls' = "reading"
  /\ todo' = {i \in Ids : file[i] # Absent}
  /\ before' = {s \in Seals : pc[s] = "sealed"}
  /\ UNCHANGED <<sealVars, file, listing>>

\* Slip: a file that does not decode is listed with the name of the exception.
SlipLsReads(i) ==
  /\ ls = "reading" /\ i \in todo
  /\ listing' = [listing EXCEPT ![i] = IF ~Decodes(file[i]) THEN "UnicodeDecodeError"
                                       ELSE IF Passes(file[i]) THEN "ok" ELSE "sha mismatch"]
  /\ todo' = todo \ {i}
  /\ UNCHANGED <<sealVars, file, ls, before>>

LsReads(i) ==
  /\ ls = "reading" /\ i \in todo /\ Decodes(file[i])
  /\ listing' = [listing EXCEPT ![i] = IF ~Splits(ReadText(file[i])) THEN "UNREADABLE"
                                       ELSE IF Passes(file[i]) THEN "ok" ELSE "sha mismatch"]
  /\ todo' = todo \ {i}
  /\ UNCHANGED <<sealVars, file, ls, before>>

\* Slip: a file that does not decode ends the listing there.
SlipLsTrips(i) ==
  /\ ls = "reading" /\ i \in todo /\ ~Decodes(file[i])
  /\ ls' = "done"
  /\ UNCHANGED <<sealVars, file, todo, listing, before>>

\* A UnicodeDecodeError, and no listing at all.
LsTrips(i) ==
  /\ ls = "reading" /\ i \in todo /\ ~Decodes(file[i])
  /\ ls' = "traceback"
  /\ UNCHANGED <<sealVars, file, todo, listing, before>>

LsEnds ==
  /\ ls = "reading" /\ todo = {}
  /\ ls' = "done"
  /\ UNCHANGED <<sealVars, file, todo, listing, before>>

Next ==
  \/ \E s \in Seals : Refuses(s) \/ Begins(s) \/ Opens(s) \/ Writes(s) \/ Cuts(s) \/ Dies(s)
  \/ LsBegins \/ LsEnds
  \/ \E i \in Ids : LsReads(i) \/ LsTrips(i)

Spec == Init /\ [][Next]_vars

-----------------------------------------------------------------------------

\* No other seal has drawn the id of this one.
Alone(s) == \A t \in Seals \ {s} : id[t] # id[s]

\* What the codec can hold: a header without a rule, and a body with a first line and
\* with no line end but "nl".
RuleFree(s) == ~Contains(header[s], "rule")
Plain(s) == RuleFree(s) /\ Head(body[s]) # "nl" /\ ~Contains(body[s], "cr")

\* wkb.py:136-149, 371-374, 395, 415, 476: what a seal has reported as sealed passes
\* the check exactly if it is plain, and then its body is read as the seal had it.
PassesIfPlain ==
  \A s \in Seals : pc[s] = "sealed" /\ Alone(s) => (Passes(file[id[s]]) <=> Plain(s))

\* wkb.py:407: no reader takes a record that is being written, or was left by a seal
\* that died, for one that is whole, wherever the writing has come to.  (What follows
\* a rule in a header could be the very text of the body.)
UnfinishedFails ==
  \A s \in Seals :
    pc[s] \in {"writing", "dead"} /\ Alone(s) /\ RuleFree(s)
      => file[id[s]] = Absent \/ ~Passes(file[id[s]])

\* wkb.py:498-524: a listing has every record that was sealed before it began, and
\* says of it what the check would say; and nothing in it is "ok" that no seal has
\* finished, unless two that drew one id have both been at it: together they may
\* make up the record of one of them.
ListsWhatIsSealed ==
  ls = "done"
    => /\ \A s \in before :
            /\ listing[id[s]] # "unlisted"
            /\ Alone(s) => (listing[id[s]] = "ok" <=> Plain(s))
       /\ \A i \in Ids :
            listing[i] = "ok" /\ (\A s \in Seals : id[s] = i => RuleFree(s))
              => \E s \in Seals : id[s] = i /\ (pc[s] = "sealed" \/ ~Alone(s))

-----------------------------------------------------------------------------
(* A claim of the repository that the code does not keep. *)

\* scripts/smoke.sh:19-22: a freshly sealed record passes the check.
FreshlySealedPasses ==
  \A s \in Seals : pc[s] = "sealed" /\ Alone(s) => Passes(file[id[s]])
=============================================================================
