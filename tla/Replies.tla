------------------------------ MODULE Replies -------------------------------
(***************************************************************************)
(* Errors on their way back to a caller.  A reply carries the text of an   *)
(* error and nothing else: a conflict is written in a grammar and parsed   *)
(* again, and the outcome of the command is found by the prefix of the     *)
(* text.                                                                   *)
(*                                                                         *)
(* A text is a sequence of the fragments that the grammar tells apart: its *)
(* prefix and field names, the double quote and the backslash of           *)
(* strconv.Quote, and any other run of characters.  Identifiers may        *)
(* contain each of them.                                                   *)
(***************************************************************************)
EXTENDS Metadata, SequencesExt, FiniteSetsExt

CONSTANT MaxRevision    \* bound on the revisions ParseUint is tried on

DoubleQuote == "double quote"
Backslash == "backslash"

ErrConcurrencyConflict == <<"ego: concurrency conflict">>
ErrActorContextCanceled == <<"urd: command context canceled">>
ErrActorDeadlineExceeded == <<"urd: command deadline exceeded">>

ConflictGrammarPrefix == ErrConcurrencyConflict \o <<": grammar=v1, scope=">>

\* A conflict is a Scope ("unscoped" or a tenant's id), a persistence id, a
\* precondition ("unconditional", "genesis" or a revision's text) and a revision.
NewConflictError(scope, id, expected, actual) ==
    [scope |-> scope, id |-> id, expected |-> expected, actual |-> actual]

-----------------------------------------------------------------------------
(***************************************************************************)
(* ConflictError.Error                                                     *)
(***************************************************************************)

\* A bug: a backslash is not escaped.
QuoteOnlyQuotes(text) ==
    <<DoubleQuote>>
        \o FlattenSeq([i \in DOMAIN text |-> IF text[i] = DoubleQuote THEN <<Backslash, text[i]>> ELSE <<text[i]>>])
        \o <<DoubleQuote>>

\* strconv.Quote
Quote(text) ==
    <<DoubleQuote>>
        \o FlattenSeq([i \in DOMAIN text |->
               IF text[i] \in {DoubleQuote, Backslash} THEN <<Backslash, text[i]>> ELSE <<text[i]>>])
        \o <<DoubleQuote>>

FormatConflictScope(scope) ==
    IF scope = "unscoped" THEN <<"unscoped">> ELSE <<"tenant:">> \o Quote(<<scope>>)

ConflictText(e) ==
    ConflictGrammarPrefix \o FormatConflictScope(e.scope)
        \o <<", persistence_id=">> \o Quote(e.id)
        \o <<", expected=", e.expected>>
        \o <<", actual=", IF e.actual = None THEN "unknown" ELSE ToString(e.actual)>>

-----------------------------------------------------------------------------
(***************************************************************************)
(* ParseConflictError.  A parser is the rest of the text, what was read of *)
(* the error, and whether it still may be one.                             *)
(***************************************************************************)

Failed(p) == [p EXCEPT !.ok = FALSE]

\* strings.CutPrefix
CutPrefix(p, prefix) ==
    IF p.ok /\ IsPrefix(prefix, p.rest)
    THEN [p EXCEPT !.rest = SubSeq(@, Len(prefix) + 1, Len(@))] ELSE Failed(p)

\* An odd number of backslashes stands before position i.
Escaped(text, i) ==
    LET plain == {0} \cup {j \in 1..(i - 1) : text[j] # Backslash}
    IN  (i - 1 - Max(plain)) % 2 = 1

\* cutQuoted: QuotedPrefix and Unquote, and what Quote would not have written is refused.
CutQuoted(p) ==
    LET text == p.rest
        ends == {i \in 2..Len(text) : text[i] = DoubleQuote /\ ~Escaped(text, i)}
        quoted == SubSeq(text, 1, Min(ends))
        kept == SetToSortSeq({i \in 2..(Min(ends) - 1) : text[i] = Backslash => Escaped(text, i)}, <)
        value == [i \in DOMAIN kept |-> text[kept[i]]]
    IN  IF ~p.ok \/ text = <<>> \/ ends = {} THEN Failed(p)
        ELSE IF Head(text) # DoubleQuote \/ Quote(value) # quoted THEN Failed(p)
        ELSE [p EXCEPT !.rest = SubSeq(text, Len(quoted) + 1, Len(text)), !.value = value]

\* NewTenantScope
ReadTenant(p) ==
    IF p.ok /\ Len(p.value) = 1 /\ NewTenantID(p.value[1]) # Invalid
    THEN [p EXCEPT !.e.scope = p.value[1]] ELSE Failed(p)

CutConflictScope(p) ==
    IF p.ok /\ IsPrefix(<<"unscoped">>, p.rest)
    THEN CutPrefix([p EXCEPT !.e.scope = "unscoped"], <<"unscoped">>)
    ELSE ReadTenant(CutQuoted(CutPrefix(p, <<"tenant:">>)))

ReadId(p) == [p EXCEPT !.e.id = p.value]

ParseCanonicalUint(token) ==
    IF \E n \in 0..MaxRevision : ToString(n) = token
    THEN CHOOSE n \in 0..MaxRevision : ToString(n) = token ELSE None

ReadPrecondition(p) ==
    IF p.ok /\ p.rest # <<>>
       /\ (Head(p.rest) \in {"unconditional", "genesis"} \/ ParseCanonicalUint(Head(p.rest)) # None)
    THEN [p EXCEPT !.e.expected = Head(p.rest), !.rest = Tail(@)] ELSE Failed(p)

ReadActual(p) ==
    IF p.ok /\ Len(p.rest) = 1 /\ (p.rest[1] = "unknown" \/ ParseCanonicalUint(p.rest[1]) # None)
    THEN [p EXCEPT !.e.actual = IF p.rest[1] = "unknown" THEN None ELSE ParseCanonicalUint(p.rest[1])]
    ELSE Failed(p)

ParseConflictError(message) ==
    LET start == [ok |-> TRUE, rest |-> message, value |-> <<>>,
                  e |-> NewConflictError("unscoped", <<>>, "unconditional", None)]
        scope == CutConflictScope(CutPrefix(start, ConflictGrammarPrefix))
        id == ReadId(CutQuoted(CutPrefix(scope, <<", persistence_id=">>)))
        expected == ReadPrecondition(CutPrefix(id, <<", expected=">>))
        actual == ReadActual(CutPrefix(expected, <<", actual=">>))
    IN  IF actual.ok THEN actual.e ELSE None

-----------------------------------------------------------------------------
(***************************************************************************)
(* Results.                                                                *)
(***************************************************************************)

NewFailure(message, cause) == [message |-> message, cause |-> cause]

\* NewRejected, NewFailed, NewTimedOut and NewCanceled: the last two have a cause.
NewResult(outcome, f) ==
    [outcome |-> outcome, message |-> f.message,
     cause |-> IF f.cause = None /\ outcome \in {"timed_out", "canceled"} THEN [context |-> outcome] ELSE f.cause]

\* classifierRegistry, in its order, and the failure of what it does not know.
ClassifyErrorReply(message) ==
    IF IsPrefix(ErrActorContextCanceled, message) THEN NewResult("canceled", NewFailure(message, None))
    ELSE IF IsPrefix(ErrActorDeadlineExceeded, message) THEN NewResult("timed_out", NewFailure(message, None))
    ELSE IF IsPrefix(ErrConcurrencyConflict, message)
    THEN NewResult("rejected", NewFailure(message, ParseConflictError(message)))
    ELSE NewResult("failed", NewFailure(message, None))

\* ResultFromReply, of an error: an empty one gets a text.
ResultFromReply(message) ==
    ClassifyErrorReply(IF message = <<>> THEN <<"command: empty error reply message">> ELSE message)

\* Result.Err, and resultToLegacy: the text of the failure again.
ErrorOf(result) == result.message
=============================================================================
