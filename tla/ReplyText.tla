------------------------------ MODULE ReplyText ------------------------------
(***************************************************************************)
(* From the LLM's draft to the text of a post, as operators on sequences   *)
(* of tokens: the quality gate, its last resort, Slack formatting, the     *)
(* mention policy and the length cap.                                      *)
(***************************************************************************)
EXTENDS Integers, Sequences, FiniteSets

CONSTANTS
  Bot,      \* the squad
  Self,     \* the bot that posts
  Ross,     \* the bot hand-offs drift to, if it is in the squad
  Nobody,
  MaxLines, \* slackReplyMaxLines
  MaxLen    \* slackReplyMaxRunes, in tokens

Others == Bot \ {Self}

ASSUME TextAssumption ==
  /\ Self \in Bot /\ Others # {} /\ IsFiniteSet(Bot) /\ Nobody \notin Bot
  /\ MaxLines \in Nat \ {0} /\ MaxLen \in Nat \ {0}

\* What a draft consists of: mentions ("@ross" or a Slack token, which the
\* first formatting step unifies), names, commas, plain words, "me" before a
\* verb, words that leave a sentence open, sterile openers, the report that
\* Kubernetes could not be reached, the end of a sentence, internal labels
\* ("Step 1:", "Current state:"), breaks between lines, and the marks that
\* formatting takes away (a heading's signs, the brackets of a link).
Plain == {"word", "comma", "me", "tail", "ack", "blocked", "stop", "label", "line", "mark"}
Token == [is : {"ping", "name"}, of : Bot] \cup [is : Plain, of : {Nobody}]
Text == Seq(Token)

The(is) == [is |-> is, of |-> Nobody]
Ping(b) == [is |-> "ping", of |-> b]
Name(b) == [is |-> "name", of |-> b]

Has(text, is) == \E i \in DOMAIN text : text[i].is = is
Ends(text, is) == text # <<>> /\ text[Len(text)].is = is
Pings(text) == {i \in DOMAIN text : text[i].is = "ping"}
Breaks(text) == {i \in DOMAIN text : text[i].is = "line"}

\* The LLM's answer is trimmed.
Reply == {t \in Text : t # <<>> => t[1].is # "line" /\ t[Len(t)].is # "line"}

\* A sentence starts at the beginning, after a full stop, and with a line.
StartsSentence(text, i) == i = 1 \/ text[i - 1].is \in {"stop", "line"}
StartsLine(text, i) == i = 1 \/ text[i - 1].is = "line"

\* One token more, unless it is bad or ends an empty line.  A function has TLC
\* evaluate its argument once.
Put(x, bad) ==
  [kept \in Text |->
     IF x \in bad \/ (x.is = "line" /\ (kept = <<>> \/ Ends(kept, "line")))
     THEN kept ELSE Append(kept, x)]

\* The text that is left when some tokens and all empty lines are taken out.
TakeOut(text, bad) ==
  LET upTo[i \in 0 .. Len(text)] ==
        IF i = 0 THEN <<>> ELSE Put(text[i], bad)[upTo[i - 1]]
  IN  upTo[Len(text)]
Without[bad \in SUBSET Token] == [text \in Text |-> TakeOut(text, bad)]

\* A line that is left empty at the end is trimmed.
Chomp(text) == IF Ends(text, "line") THEN SubSeq(text, 1, Len(text) - 1) ELSE text

\* The placeholders for an empty reply.
Dots == <<The("stop")>>
-----------------------------------------------------------------------------
(***************************************************************************)
(* The quality gate.                                                       *)
(***************************************************************************)
\* A line opens with a label, but for tokens that are thin.
Shows(text, thin) ==
  \E i \in DOMAIN text :
    /\ text[i].is = "label"
    /\ \E j \in 1 .. i : StartsLine(text, j) /\ \A k \in j .. i - 1 : text[k].is \in thin

\* The gate looks at the openings of lines.
Labelled(text) == Shows(text, {})

\* outboundNeedsRepair; labels end in a colon, which reads as cut off, and a
\* single word counts as suspiciously short.
NeedsRepair(text) ==
  \/ text = <<>>
  \/ Labelled(text)
  \/ Ends(text, "tail") \/ Ends(text, "label")
  \/ \E i \in DOMAIN text : text[i].is = "me" /\ StartsSentence(text, i)
  \/ Len(text) = 1 /\ text[1].is \in {"word", "name", "me", "ack"}

\* The lines that open with a label are left out.
OnLabelLine(text, i) ==
  \E j \in 1 .. i : /\ text[j].is = "label" /\ StartsLine(text, j)
                    /\ \A k \in j .. i : text[k].is # "line"
NoLabels(text) ==
  Chomp(Without[{}][[i \in DOMAIN text |->
                       IF OnLabelLine(text, i) THEN The("line") ELSE text[i]]])

\* "Quick take: send that again ..."
Excuse == <<The("word"), The("word"), The("stop")>>

\* Mutant: the draft goes out as it is, with a full stop.
CompleteAsIs(text) == Append(text, The("stop"))

\* fallbackCompleteReply: without labels and with a full stop.
Complete(text) ==
  LET clean == NoLabels(text) IN
  IF clean = <<>> THEN Excuse
  ELSE IF Ends(clean, "stop") THEN clean ELSE Append(clean, The("stop"))
-----------------------------------------------------------------------------
(***************************************************************************)
(* Formatting.                                                             *)
(***************************************************************************)
\* Somebody else is addressed: "Tim, ..."
Addressed(text, i) ==
  /\ text[i].is = "name" /\ text[i].of # Self
  /\ i < Len(text) /\ text[i + 1].is = "comma"

\* An address that opens a sentence becomes a mention.
MentionNames(text) ==
  [i \in DOMAIN text |->
     IF Addressed(text, i) /\ StartsSentence(text, i)
     THEN Ping(text[i].of) ELSE text[i]]

NoMarks(text) == Without[{The("mark")}][text]
NoSelfPings(text) == Without[{Ping(Self)}][text]

\* One's own name becomes "I" or "me", and "me" before a verb becomes "I",
\* wherever it stands.
FirstPerson ==
  [text \in Text |->
     [i \in DOMAIN text |->
        IF text[i] = Name(Self) \/ text[i].is = "me" THEN The("word") ELSE text[i]]]

Stops(text) == {i \in DOMAIN text : text[i].is = "stop"}
LastStop(text) == CHOOSE i \in Stops(text) : \A j \in Stops(text) : j <= i

\* The places beyond the last line that is posted.
TooFar(text) ==
  {i \in DOMAIN text : Cardinality({j \in Breaks(text) : j <= i}) >= MaxLines}
Least(S) == CHOOSE i \in S : \A j \in S : i <= j

FirstLines(text) ==
  IF TooFar(text) = {} THEN text ELSE SubSeq(text, 1, Least(TooFar(text)) - 1)

\* Mutant: the cap cuts where it is.
CapHard ==
  [text \in Text |->
     LET lines == Chomp(FirstLines(text)) IN
     IF Len(lines) <= MaxLen THEN lines ELSE SubSeq(lines, 1, MaxLen)]

\* The first lines; if they are too long, cut after the last full stop that
\* fits, or where it is, with a full stop.
Cap ==
  [text \in Text |->
     LET lines == Chomp(FirstLines(text))
         cut   == Chomp(SubSeq(lines, 1, MaxLen))
     IN  IF Len(lines) <= MaxLen THEN lines
         ELSE IF Stops(cut) # {} THEN SubSeq(cut, 1, LastStop(cut)) ELSE Append(cut, The("stop"))]

Normalize(text) == Cap[FirstPerson[NoSelfPings(MentionNames(NoMarks(text)))]]
-----------------------------------------------------------------------------
(***************************************************************************)
(* The mention policy.                                                     *)
(***************************************************************************)
\* Whom a hand-off may go to: somebody the draft mentions, unless that is Ross
\* alone; otherwise the hash of the text decides.
Targets(text) ==
  LET named == {text[i].of : i \in Pings(text)} \cap Others IN
  IF named = {} \/ (named = {Ross} /\ Cardinality(Others) > 1) THEN Others ELSE named

NoPings(text) == Chomp(Without[{Ping(b) : b \in Others}][text])

QuickTake(b) == <<Ping(b), The("word"), The("stop")>>

\* Mutant: a hand-off keeps what the draft mentions.
EnforceKeeps(text, handoff) ==
  IF handoff THEN {text \o QuickTake(b) : b \in Targets(text)}
  ELSE {IF NoPings(text) = <<>> THEN Dots ELSE NoPings(text)}

\* enforceMultiagentMentionPolicy: one mention for a hand-off, none otherwise.
Enforce(text, handoff) ==
  LET out == NoPings(text) IN
  IF handoff THEN {out \o QuickTake(b) : b \in Targets(text)}
  ELSE {IF out = <<>> THEN Dots ELSE out}

\* What may be posted for an approved text.
Final(text, handoff) ==
  LET posted[t \in Text] ==
        {IF Normalize(u) = <<>> THEN Dots ELSE Normalize(u) : u \in Enforce(t, handoff)}
  IN  posted[Normalize(text)]
-----------------------------------------------------------------------------
(***************************************************************************)
(* What a post promises.                                                   *)
(***************************************************************************)
PingedBy(text) == {text[i].of : i \in Pings(text)}

\* Without its mentions the text addresses somebody in the opening of a
\* sentence, and the second formatting makes that a mention again.
Exposes(text) ==
  LET bare == Without[{Ping(b) : b \in Bot}][MentionNames(NoMarks(text))] IN
  \E i \in DOMAIN bare : Addressed(bare, i) /\ StartsSentence(bare, i)

\* The lines that are not empty.
Lines(text) == 1 + Cardinality(Breaks(Without[{}][text]))

\* There is room for a hand-off.
Fits(text) == Len(text) + 3 <= MaxLen /\ Lines(text) <= MaxLines

\* A label stands behind what formatting and the mention policy may take away.
HidesLabel(text) == ~Labelled(text) /\ Shows(text, {"mark", "ping"})

\* "exactly one other-agent mention" or "no squad mentions".
Obeys(post, handoff) == Cardinality(Pings(post)) = IF handoff THEN 1 ELSE 0
=============================================================================
