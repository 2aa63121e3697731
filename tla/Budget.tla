------------------------------- MODULE Budget -------------------------------
(***************************************************************************)
(* How a transcript is split so that each part fits into one request to    *)
(* the language model.                                                     *)
(*                                                                         *)
(* Source: backend/app/summarize.py, and its caller in summary_runner.py.  *)
(*                                                                         *)
(* A segment is its length in characters, a part the sequence of the       *)
(* numbers of its segments.  The model is taken to use exactly the tokens  *)
(* that estimate_tokens predicts.                                          *)
(***************************************************************************)
EXTENDS Integers, Sequences, FiniteSets

CONSTANTS
    Transcripts,        \* sequences of segment lengths
    Contexts,           \* context_tokens of the provider
    Prompts,            \* characters of the system prompt and the template
    Copies,             \* how often {transcript} occurs in the template
    ResponseReserve,    \* RESPONSE_RESERVE_TOKENS
    MinimumBudget       \* MINIMUM_BUDGET_TOKENS

ASSUME MinimumAssumption == MinimumBudget \in Nat \ {0}
ASSUME ReserveAssumption == ResponseReserve \in Nat
\* _segments leaves out empty texts.
ASSUME TranscriptAssumption == Transcripts \subseteq Seq(Nat \ {0})
\* context_tokens is an integer column and may hold any; the others are counts.
ASSUME InputAssumption == Contexts \subseteq Int /\ Prompts \subseteq Nat /\ Copies \subseteq Nat

CharsPerToken == 3
PlaceholderChars == 12

VARIABLES
    segments,   \* the transcript
    context, prompt, copies,
    pc,         \* "start", "loop" or "done"
    budget,
    next,       \* the segment the loop looks at
    current,    \* the part it fills
    tokens,     \* current_tokens
    parts       \* the parts it has closed

input == <<segments, context, prompt, copies>>
vars == <<input, pc, budget, next, current, tokens, parts>>

Numbers == 1 .. Len(segments)

TypeOK ==
    /\ pc \in {"start", "loop", "done"}
    /\ budget \in Nat
    /\ pc # "start" => budget > 0
    /\ next \in 1 .. Len(segments) + 1
    /\ current \in Seq(Numbers)
    /\ tokens \in Nat
    /\ parts \in Seq(Seq(Numbers))

Init ==
    /\ segments \in Transcripts
    /\ context \in Contexts /\ prompt \in Prompts /\ copies \in Copies
    /\ pc = "start"
    /\ budget = 0 /\ next = 1 /\ current = << >> /\ tokens = 0 /\ parts = << >>

-----------------------------------------------------------------------------

\* estimate_tokens: the length divided by CHARS_PER_TOKEN, rounded up.
EstimateTokens(chars) == (chars + CharsPerToken - 1) \div CharsPerToken

\* Mutant: no lower limit.
InputBudgetNoMinimum == context - EstimateTokens(prompt) - ResponseReserve

Remaining == context - EstimateTokens(prompt) - ResponseReserve
InputBudget == IF Remaining > MinimumBudget THEN Remaining ELSE MinimumBudget

SetBudget ==
    /\ pc = "start"
    /\ budget' = InputBudget
    /\ pc' = "loop"
    /\ UNCHANGED <<input, next, current, tokens, parts>>

\* Mutant: a part is closed when the next segment just fits.
OverflowsEarly(cost) == current # << >> /\ tokens + cost >= budget
Overflows(cost) == current # << >> /\ tokens + cost > budget

\* Mutant: the segment that did not fit is not put into the next part.
TakeDrops ==
    /\ pc = "loop" /\ next <= Len(segments)
    /\ LET cost == EstimateTokens(segments[next])
       IN  IF Overflows(cost)
           THEN parts' = Append(parts, current) /\ current' = << >> /\ tokens' = 0
           ELSE parts' = parts /\ current' = Append(current, next) /\ tokens' = tokens + cost
    /\ next' = next + 1
    /\ UNCHANGED <<input, pc, budget>>

\* One turn of the loop.
Take ==
    /\ pc = "loop" /\ next <= Len(segments)
    /\ LET cost == EstimateTokens(segments[next])
       IN  IF Overflows(cost)
           THEN parts' = Append(parts, current) /\ current' = <<next>> /\ tokens' = cost
           ELSE parts' = parts /\ current' = Append(current, next) /\ tokens' = tokens + cost
    /\ next' = next + 1
    /\ UNCHANGED <<input, pc, budget>>

CloseLast ==
    /\ pc = "loop" /\ next > Len(segments)
    /\ parts' = IF current = << >> THEN parts ELSE Append(parts, current)
    /\ pc' = "done"
    /\ UNCHANGED <<input, budget, next, current, tokens>>

\* The parts are returned.
Finished == pc = "done" /\ UNCHANGED vars

Next == SetBudget \/ Take \/ CloseLast \/ Finished

Spec == Init /\ [][Next]_vars

-----------------------------------------------------------------------------

\* The sum of f[i] over a sequence of numbers.
SumOver(f, part) ==
    LET sum[k \in 0 .. Len(part)] == IF k = 0 THEN 0 ELSE sum[k - 1] + f[part[k]]
    IN  sum[Len(part)]

Cost(part) == SumOver([i \in Numbers |-> EstimateTokens(segments[i])], part)

\* " ".join(part)
JoinedChars(part) == SumOver(segments, part) + Len(part) - 1

\* The system prompt and the template with the part in every {transcript}.
RequestTokens(part) ==
    EstimateTokens(prompt + copies * (JoinedChars(part) - PlaceholderChars))

\* A way to cut the transcript into consecutive parts is the set of the last
\* segments of its parts; this is the part that ends with segment i.
PartEnds == {ends \in SUBSET Numbers : Len(segments) \in ends}
PartUpTo(ends, i) ==
    LET first == CHOOSE n \in 1 .. i : (n = 1 \/ n - 1 \in ends) /\ n .. (i - 1) \cap ends = {}
    IN  [k \in 1 .. i - first + 1 |-> first + k - 1]
Fits(part) == Len(part) = 1 \/ Cost(part) <= budget

-----------------------------------------------------------------------------
(* Properties *)

\* Every segment is in the parts once and in order
\* (test_every_word_survives_the_split).
EverySegmentOnce ==
    pc = "done" =>
        LET order[k \in 0 .. Len(parts)] ==
                IF k = 0 THEN << >> ELSE order[k - 1] \o parts[k]
        IN  order[Len(parts)] = [i \in Numbers |-> i]

\* No other way of cutting the transcript into parts that fit, by the planner's own
\* estimate, needs fewer requests ("as few parts as each will fit into").
FewestParts ==
    pc = "done" /\ segments # << >> =>
        \A ends \in PartEnds :
            (\A i \in ends : Fits(PartUpTo(ends, i))) => Len(parts) <= Cardinality(ends)

=============================================================================
