------------------------------- MODULE Masking -------------------------------
(***************************************************************************)
(* What the platform looks for in texts and what it makes of it: the       *)
(* personal data of a whole text, masked value by value; the check digit   *)
(* of a card; the tokens of a stream, seen through a window of its last    *)
(* characters; the categories of harmful content; the roles of the lines   *)
(* of a prompt, and its placeholders.  They share no state: a run is about *)
(* one of them.                                                            *)
(***************************************************************************)
EXTENDS Naturals, Sequences, SequencesExt, FiniteSets, FiniteSetsExt

CONSTANTS Length, MaxMatches,       \* characters of a text, and finds in it
          Separators,               \* the positions in it that hold no digit and no letter
          Types,                    \* type of each pattern of PATTERNS, in their order
          Kept, Short,              \* digits that stay visible; values too short to show an end
          Digits, MaxDigits,        \* digits of card numbers, and how many
          Buffer, MaxToken, MaxText,
          PhoneLength, CardLength, KeyLength,
          Categories,               \* severity and threshold of a category, both numbers
          MaxLines,
          Templates, Arguments      \* prompts; values for their keys, in order

VARIABLES looks,                    \* "text", "card", "stream", "content" or "roles"
          matches, detections, form, output,
          card,
          received, token, sent, stopped,
          violations, blockOnMedium,
          lines

textVars == <<matches, detections, form, output>>
streamVars == <<received, token, sent, stopped>>
vars == <<looks, textVars, card, streamVars, violations, blockOnMedium, lines>>

Positions == 1..Length
Star == 0                           \* what a hidden character is shown as
Tag == Length + 1                   \* a placeholder or a hash
Stars(n) == [i \in 1..n |-> Star]
Forms == {"preserved", "stars", "placeholder"}
Roles == {"system", "user", "assistant"}
NoRole == "none"

Size(m) == m.to + 1 - m.from
Overlap(m, n) == m.from <= n.to /\ n.from <= m.to

Spans == {s \in [from : Positions, to : Positions] : s.from < s.to}
IsMail(s) == Cardinality(Separators \cap (s.from + 1)..(s.to - 1)) = 2 /\ s.from + 1 \in Separators
Found == UNION {{[from |-> s.from, to |-> s.to, pattern |-> p] :
                     s \in {t \in Spans : Types[p] = "email" => IsMail(t)}} : p \in DOMAIN Types}
Init ==
    /\ looks \in {"text", "card", "stream", "content", "roles"}
    /\ matches = {}
    /\ detections = <<>> /\ form = "preserved" /\ output = <<>>
    /\ card \in IF looks = "card" THEN UNION {[1..n -> Digits] : n \in 1..MaxDigits} ELSE {<<>>}
    /\ received = <<>> /\ token = <<>> /\ sent = <<>> /\ stopped = FALSE
    /\ violations \in IF looks = "content" THEN SUBSET DOMAIN Categories ELSE {{}}
    /\ blockOnMedium \in IF looks = "content" THEN BOOLEAN ELSE {TRUE}
    /\ lines = <<>>
-----------------------------------------------------------------------------
(* A whole text.  A character is its position.                               *)

\* detect(): finditer() of each pattern in turn; those of two patterns may overlap
Find(m) ==
    /\ detections = <<>> /\ Cardinality(matches) < MaxMatches
    /\ \A n \in matches : n.pattern < m.pattern \/ (n.pattern = m.pattern /\ n.to < m.from)
    /\ matches' = matches \cup {m}
    /\ UNCHANGED <<detections, form, output>>

Before(m, n) == \/ m.from < n.from
                \/ m.from = n.from /\ Size(m) > Size(n)
                \/ m.from = n.from /\ Size(m) = Size(n) /\ m.pattern <= n.pattern

\* _deduplicate_detections(): each in turn that begins after the end of the last one kept
Deduplicated(M) ==
    LET sorted == SetToSortSeq(M, Before)
        kept[i \in 0..Len(sorted)] ==
            IF i = 0 THEN <<>>
            ELSE IF kept[i - 1] # <<>> /\ sorted[i].from <= Last(kept[i - 1]).to
            THEN kept[i - 1] ELSE Append(kept[i - 1], sorted[i])
    IN  kept[Len(sorted)]

Detect == /\ output = <<>> /\ detections = <<>> /\ matches # {}
          /\ detections' = Deduplicated(matches)
          /\ UNCHANGED <<matches, form, output>>

OfValue(m) == [i \in 1..Size(m) |-> m.from + i - 1]
DigitsOf(v) == SelectSeq(v, LAMBDA c : c \notin Separators)

\* _mask_value(): the last digits of a phone in their places, the last of other numbers on
\* their own, the first characters of both parts of an address, the ends of anything else
MaskedValue(m, f) ==
    LET v == OfValue(m)
        n == Len(v)
        digits == DigitsOf(v)
        last == SubSeq(digits, Len(digits) + 1 - Kept, Len(digits))
    IN  CASE f = "stars" -> Stars(n)
          [] f = "placeholder" -> <<Tag>>
          [] OTHER ->
             CASE Types[m.pattern] = "phone" ->
                      [i \in 1..n |-> IF v[i] \in Separators \/ (Len(digits) >= Kept /\ v[i] \in ToSet(last))
                                      THEN v[i] ELSE Star]
               [] Types[m.pattern] = "ssn" ->
                      IF Len(digits) >= Kept THEN Stars(Len(digits) - Kept) \o last ELSE Stars(n)
               [] Types[m.pattern] = "email" ->
                      LET dot == Max({i \in 1..n : v[i] \in Separators})
                      IN  <<v[1], Star, v[2], v[3]>> \o Stars(Max({1, dot - 4})) \o SubSeq(v, dot, n)
               [] OTHER -> IF n <= Short THEN Stars(n) ELSE <<v[1]>> \o Stars(n - 2) \o <<v[n]>>

\* mask(), mask_to_placeholder(), hash_pii(): from the right, so that the places before still hold
Replaced(D, f) ==
    LET text[i \in 1..Len(D) + 1] ==
            IF i = Len(D) + 1 THEN [p \in Positions |-> p]
            ELSE SubSeq(text[i + 1], 1, D[i].from - 1) \o MaskedValue(D[i], f)
                 \o SubSeq(text[i + 1], D[i].to + 1, Len(text[i + 1]))
    IN  text[1]

Mask(f) ==
    /\ output = <<>> /\ detections # <<>>
    /\ form' = f /\ output' = Replaced(detections, f)
    /\ UNCHANGED <<matches, detections>>

\* _luhn_check()
Luhn(c) ==
    LET doubled(d) == IF 2 * d > 9 THEN 2 * d - 9 ELSE 2 * d
        sum[i \in 0..Len(c)] ==
            IF i = 0 THEN 0
            ELSE sum[i - 1] + (IF (Len(c) - i) % 2 = 1 THEN doubled(c[i]) ELSE c[i])
    IN  c # <<>> /\ sum[Len(c)] % 10 = 0
-----------------------------------------------------------------------------
(* A stream.  Its characters are digits "d", letters of a key "k", the label *)
(* of a secret "p" and blanks; received is all the text there was.           *)

Characters == {"d", "k", "p", " "}
Tokens == UNION {[1..n -> Characters] : n \in 1..MaxToken}

\* PATTERNS: so many digits and no more; keys as long as they are; a label and what follows it
DigitRuns(s, n) ==
    {m \in [from : DOMAIN s, to : DOMAIN s] :
        /\ m.to + 1 = m.from + n
        /\ \A i \in m.from..m.to : s[i] = "d"
        /\ m.from > 1 => s[m.from - 1] # "d"
        /\ m.to < Len(s) => s[m.to + 1] # "d"}
KeyRuns(s) ==
    {m \in [from : DOMAIN s, to : DOMAIN s] :
        /\ m.to + 1 >= m.from + KeyLength
        /\ \A i \in m.from..m.to : s[i] = "k"
        /\ m.from > 1 => s[m.from - 1] # "k"
        /\ m.to < Len(s) => s[m.to + 1] # "k"}
Secrets(s) ==
    {m \in [from : DOMAIN s, to : DOMAIN s] :
        /\ m.to > m.from /\ s[m.from] = "p"
        /\ \A i \in m.from..m.to : s[i] # " "
        /\ m.to < Len(s) => s[m.to + 1] = " "
        /\ \A i \in 1..(m.from - 1) : s[i] = "p" => \E j \in i..m.from : s[j] = " "}
Patterns(s) == <<[block |-> TRUE, of |-> DigitRuns(s, CardLength)],
                 [block |-> FALSE, of |-> DigitRuns(s, PhoneLength)],
                 [block |-> TRUE, of |-> KeyRuns(s)],
                 [block |-> TRUE, of |-> Secrets(s)]>>

\* _sliding_buffer_scan(), should_block(): what overlaps a match of an earlier pattern is passed over
ToBlock(s) ==
    \E p \in 1..4 : /\ Patterns(s)[p].block
                    /\ \E m \in Patterns(s)[p].of :
                           \A q \in 1..(p - 1) : \A n \in Patterns(s)[q].of : ~Overlap(m, n)

LastOf(s, n) == SubSeq(s, Len(s) + 1 - Min({n, Len(s)}), Len(s))

\* scan(): _buffer
Window(t) == LastOf(received \o t, Buffer)

\* mask(): each phone of the window hides the first of its value that the token holds
Hidden(t, n) ==
    LET at(s) == {i \in 1..(Len(s) + 1 - PhoneLength) : \A j \in i..(i + PhoneLength - 1) : s[j] = "d"}
        masked[i \in 0..n] ==
            IF i = 0 THEN t
            ELSE LET s == masked[i - 1] IN
                 IF at(s) = {} THEN s
                 ELSE [j \in DOMAIN s |-> IF j > Min(at(s)) /\ j < Min(at(s)) + PhoneLength THEN "*" ELSE s[j]]
    IN  masked[n]

\* monitor_token()
Monitor(t) ==
    /\ ~stopped /\ Len(received) + Len(t) <= MaxText
    /\ received' = received \o t /\ token' = t
    /\ stopped' = ToBlock(Window(t))
    /\ sent' = IF stopped' THEN <<>> ELSE Hidden(t, Cardinality(DigitRuns(Window(t), PhoneLength)))

\* ContentSafetyFilter.check(): a category reaches its threshold, that of "medium" raised when asked
Threshold(c) == IF Categories[c].threshold = 1 /\ ~blockOnMedium THEN 2 ELSE Categories[c].threshold
Safe == \A c \in violations : Categories[c].severity < Threshold(c)

\* _assess_risk_level(), of one find in each category
Risk == LET count(s) == Cardinality({c \in violations : Categories[c].severity = s}) IN
        IF count(3) > 0 THEN "critical"
        ELSE IF count(2) > 2 THEN "high"
        ELSE IF count(2) > 0 \/ count(1) > 3 THEN "medium"
        ELSE IF count(1) > 0 \/ count(0) > 5 THEN "low"
        ELSE "none"
-----------------------------------------------------------------------------
(* InjectionDefense.add_role_boundaries(): a line that names a role begins a *)
(* section; lines before the first are the user's.                           *)

AddLine(r) == Len(lines) < MaxLines /\ lines' = Append(lines, r)

Sections ==
    LET after[i \in 0..Len(lines)] ==
            IF i = 0 THEN <<>>
            ELSE IF lines[i] # NoRole THEN Append(after[i - 1], [role |-> lines[i], of |-> <<i>>])
            ELSE IF after[i - 1] = <<>> THEN <<[role |-> "user", of |-> <<i>>]>>
            ELSE [after[i - 1] EXCEPT ![Len(after[i - 1])].of = Append(@, i)]
    IN  after[Len(lines)]

\* _handle_get_prompt(): the arguments one after the other, each over the text so far
Rendered(template, arguments) ==
    LET text[i \in 0..Len(arguments)] ==
            IF i = 0 THEN template
            ELSE FlattenSeq([j \in DOMAIN text[i - 1] |->
                     IF text[i - 1][j] = i THEN arguments[i] ELSE <<text[i - 1][j]>>])
    IN  text[Len(arguments)]
-----------------------------------------------------------------------------
Next ==
    \/ /\ looks = "text"
       /\ \/ \E m \in Found : Find(m)
          \/ Detect
          \/ \E f \in Forms : Mask(f)
       /\ UNCHANGED <<looks, card, streamVars, violations, blockOnMedium, lines>>
    \/ /\ looks = "stream" /\ \E t \in Tokens : Monitor(t)
       /\ UNCHANGED <<looks, textVars, card, violations, blockOnMedium, lines>>
    \/ /\ looks = "roles" /\ \E r \in Roles \cup {NoRole} : AddLine(r)
       /\ UNCHANGED <<looks, textVars, card, streamVars, violations, blockOnMedium>>

Spec == Init /\ [][Next]_vars
-----------------------------------------------------------------------------
(* mask(): what is found nowhere stays, in its order, and of what is found   *)
(* no more is shown than its type allows: a value is not cut by another and  *)
(* none is replaced beside its place.                                        *)
OnlyValuesChange ==
    output # <<>> =>
        LET inValues == UNION {m.from..m.to : m \in ToSet(detections)}
            shown == SelectSeq(output, LAMBDA c : c \notin {Star, Tag})
        IN  /\ ToSet(shown) \ inValues = Positions \ inValues
            /\ \A i, j \in DOMAIN shown : i < j => shown[i] < shown[j]
            /\ \A m \in ToSet(detections) :
                   LET seen == ToSet(shown) \cap (m.from..m.to)
                       ends == (m.to + 1 - Kept - Cardinality(Separators))..m.to
                   IN  /\ form # "preserved" => seen = {}
                       /\ Types[m.pattern] \in {"phone", "ssn"} =>
                              /\ seen \subseteq Separators \cup ends
                              /\ Cardinality(seen \ Separators) <= Kept

(* _deduplicate_detections(): values kept lie apart, and what is dropped     *)
(* shares a character with a value that is kept, so that no find is wholly   *)
(* unmasked.                                                                 *)
DroppedWithReason ==
    detections # <<>> =>
        /\ \A i, j \in DOMAIN detections : i # j => ~Overlap(detections[i], detections[j])
        /\ \A m \in matches : \E n \in ToSet(detections) : Overlap(m, n)

(* _luhn_check() refuses a number with any one digit wrong.                  *)
WrongDigitShows ==
    looks = "card" /\ Luhn(card) =>
        \A i \in DOMAIN card, d \in Digits : d # card[i] => ~Luhn([card EXCEPT ![i] = d])

(* monitor_token(): of a stream that goes on, no secret lies in the last     *)
(* characters, however it was cut into tokens: unless another find overlaps  *)
(* it, the token that completed it ended the stream.                         *)
SecretsEndStreams ==
    ~stopped => ~\E p \in 1..4 :
        /\ Patterns(received)[p].block
        /\ \E m \in Patterns(received)[p].of :
               /\ m.from + Buffer > Len(received)
               /\ \A q \in 1..(p - 1) : \A n \in Patterns(received)[q].of : ~Overlap(m, n)

(* A phone number that came in one token is not sent as it came.             *)
PhonesAreHidden ==
    \A m \in DigitRuns(received, PhoneLength) :
        ~stopped /\ m.from > Len(received) - Len(token) =>
            ~\E i \in 1..(Len(sent) + 1 - PhoneLength) : \A j \in i..(i + PhoneLength - 1) : sent[j] = "d"

(* The decision and the report of the filter agree: content is let through   *)
(* exactly when nothing was found and the risk is "none", whatever           *)
(* block_on_medium says.                                                     *)
ReportAgrees == Safe <=> violations = {} /\ Risk = "none"

(* Every line is in one section, in its order, and under the role that was   *)
(* named last before it.                                                     *)
LinesKeepTheirRole ==
    /\ FlattenSeq([i \in DOMAIN Sections |-> Sections[i].of]) = [i \in DOMAIN lines |-> i]
    /\ \A s \in ToSet(Sections) : \A i \in ToSet(s.of) :
           LET named == {j \in 1..i : lines[j] # NoRole}
           IN  s.role = IF named = {} THEN "user" ELSE lines[Max(named)]

(* _handle_get_prompt(): arguments whose values hold no placeholder give the *)
(* text that they would give at once, in whatever order they come.           *)
RenderedAtOnce ==
    looks = "roles" =>
        \A template \in Templates, a \in Arguments :
            (\A i \in DOMAIN a : ToSet(a[i]) \cap DOMAIN a = {}) =>
                Rendered(template, a) =
                    FlattenSeq([j \in DOMAIN template |->
                        IF template[j] \in DOMAIN a THEN a[template[j]] ELSE <<template[j]>>])

MaskingInv == /\ OnlyValuesChange /\ DroppedWithReason /\ WrongDigitShows
              /\ SecretsEndStreams /\ PhonesAreHidden
              /\ ReportAgrees /\ LinesKeepTheirRole /\ RenderedAtOnce
=============================================================================
