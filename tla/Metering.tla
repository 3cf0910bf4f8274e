------------------------------ MODULE Metering ------------------------------
(***************************************************************************)
(* What the metrics say was used: the tokens the router reads out of a     *)
(* response on its way to the client.                                      *)
(*                                                                         *)
(* A response is a sequence of symbols: "r" and "n" end lines, "data:"     *)
(* starts a data line, every other symbol is text.                         *)
(***************************************************************************)
EXTENDS Billing, Capacity

\* The payloads that carry a usage block; of "half" and "rest" only the two
\* data lines together do.
usageBlocks == [prompt |-> [prompt |-> 600, completion |-> 0], partial |-> [prompt |-> 0, completion |-> 3],
                both |-> [prompt |-> 512, completion |-> 7], rest |-> [prompt |-> 0, completion |-> 9]]

noUsage == [prompt |-> 0, completion |-> 0]

\* extractUsage: zero for the end marker and for what does not parse.
extractUsage(data) ==
    LET text == Keep(data, LAMBDA c : c # "space") IN
    IF text = <<"half", "rest">> THEN usageBlocks.rest
    ELSE IF Len(text) = 1 /\ text[1] \in DOMAIN usageBlocks \ {"rest"} THEN usageBlocks[text[1]] ELSE noUsage

\* Where the first event of the buffer ends, 0 if it has not ended.
findEventTerminator(buf) ==
    LET ends == {i \in DOMAIN buf : \/ i < Len(buf) /\ SubSeq(buf, i, i + 1) = <<"n", "n">>
                                    \/ i + 3 <= Len(buf) /\ SubSeq(buf, i, i + 3) = <<"r", "n", "r", "n">>}
    IN  IF ends = {} THEN 0 ELSE CHOOSE i \in ends : \A j \in ends : i <= j

eventTerminatorLen(buf, at) == IF buf[at] = "r" THEN 4 ELSE 2

dataLines(event) == Picked(event, {i \in DOMAIN event : i > 1 /\ event[i - 1] = "data:"})

\* extractFromEvent: the two counts are kept independently.
extractFromEvent(w, event) ==
    LET got == extractUsage(dataLines(event)) IN
    [w EXCEPT !.tokens = IF got.completion > 0 THEN got.completion ELSE @,
              !.promptTokens = IF got.prompt > 0 THEN got.prompt ELSE @]

\* One round of the loop: the first whole event is read and taken from the
\* buffer; without one the writer stays as it is.
nextEvent(w) ==
    LET i == findEventTerminator(w.buf) IN
    IF i = 0 THEN w
    ELSE [extractFromEvent(w, SubSeq(w.buf, 1, i - 1)) EXCEPT
             !.buf = SubSeq(w.buf, i + eventTerminatorLen(w.buf, i), Len(w.buf))]

\* The writer after each round, as many as the buffer could hold events for.
rounds(w) ==
    LET after[k \in 0..Len(w.buf)] == IF k = 0 THEN w ELSE nextEvent(after[k - 1]) IN after

\* Mutant: what follows the last whole event is thrown away.
parseSSEBuffer_Drops(w) == [rounds(w)[Len(w.buf)] EXCEPT !.buf = <<>>]

\* Every whole event in the buffer; a partial one stays for the next Write.
parseSSEBuffer(w) == rounds(w)[Len(w.buf)]

\* Symbols of a body that are kept.
FlatMaxBodyBytes == 3

\* WriteHeader: how the response will be read, if at all.
WriteHeader(resp) ==
    [mode |-> IF resp.status >= 400 THEN "none" ELSE resp.type, buf |-> <<>>, tokens |-> 0, promptTokens |-> 0]

\* Write: the client has had the bytes already.
WriteChunk(w, p) ==
    IF w.mode = "stream" THEN parseSSEBuffer([w EXCEPT !.buf = @ \o p])
    ELSE IF w.mode = "json" /\ Len(w.buf) + Len(p) <= FlatMaxBodyBytes THEN [w EXCEPT !.buf = @ \o p]
    ELSE w

\* CompletionTokens and PromptTokens, once the response ended.
usageOf(w) ==
    IF w.mode = "json" THEN extractUsage(w.buf) ELSE [prompt |-> w.promptTokens, completion |-> w.tokens]

\* The band a prompt falls in; a missing figure is not a short prompt.
contextBucket(promptTokens) ==
    IF promptTokens <= 0 THEN "unknown" ELSE IF promptTokens <= 512 THEN "512" ELSE "2k"

\* What the router records of a response; nothing of one without a count.
RecordRouterTokens(w) ==
    LET u == usageOf(w) IN IF u.completion > 0 THEN <<u.completion, contextBucket(u.prompt)>> ELSE <<>>

\* The response as it reaches the writer: cut after each of the cuts.
Proxied(resp, bytes) ==
    LET cuts     == Keep(resp.cuts, LAMBDA c : c < Len(bytes))
        to(i)    == IF i = 0 THEN 0 ELSE IF i > Len(cuts) THEN Len(bytes) ELSE cuts[i]
        chunk(i) == SubSeq(bytes, to(i - 1) + 1, to(i))
        sent[i \in 0..(Len(cuts) + 1)] ==
            IF i = 0 THEN WriteHeader(resp) ELSE WriteChunk(sent[i - 1], chunk(i))
    IN  sent[Len(cuts) + 1]

(***************************************************************************)
(* What an engine sends: events of at least one data line, or a body; cut  *)
(* somewhere by the network.                                               *)
(***************************************************************************)

Text == STRING \ {"r", "n", "data:"}
Cuts == {c \in Seq(Nat) : \A i, j \in DOMAIN c : i < j => c[i] <= c[j]}

StreamedBytes(s) ==
    LET nl      == IF s.crlf THEN <<"r", "n">> ELSE <<"n">>
        line(l) == <<"data:", l>> \o nl
        whole   == IF s.ended THEN Len(s.frames) ELSE Len(s.frames) - 1
        text(k) == FlattenSeq([i \in DOMAIN s.frames[k] |-> line(s.frames[k][i])]) \o (IF k <= whole THEN nl ELSE <<>>)
    IN  FlattenSeq([k \in DOMAIN s.frames |-> text(k)])

MeteringInput ==
    /\ part = "stream" =>
           /\ input \in [frames : Seq(Seq(Text) \ {<<>>}), crlf : BOOLEAN, ended : BOOLEAN, cuts : Cuts]
           /\ input.frames # <<>>
    /\ part = "body" => input \in [status : Nat, type : STRING, cuts : Cuts, body : Seq(Text)]

---------------------------------------------------------------------------

\* What is counted of a stream does not depend on how the network cut it, nor
\* on how its lines end (parseSSEBuffer): the last completion and the last
\* prompt length that any whole event reported.
CountIgnoresChunking ==
    part = "stream" =>
        LET whole   == IF input.ended THEN Len(input.frames) ELSE Len(input.frames) - 1
            seen    == [k \in 1..whole |-> extractUsage(input.frames[k])]
            last(n) == LET ks == {k \in DOMAIN n : n[k] > 0} IN IF ks = {} THEN 0 ELSE n[Max(ks)]
            resp    == [status |-> 200, type |-> "stream", cuts |-> input.cuts]
        IN  usageOf(Proxied(resp, StreamedBytes(input)))
                = [prompt |-> last([k \in 1..whole |-> seen[k].prompt]),
                   completion |-> last([k \in 1..whole |-> seen[k].completion])]

\* A number that is recorded is one the engine reported (RecordRouterTokens):
\* a body too large to keep, an error or an unknown type records nothing, and
\* never a short prompt in place of an unknown one.
RecordedIsReported ==
    part = "body" =>
        LET resp == [status |-> input.status, type |-> input.type, cuts |-> input.cuts]
            got  == RecordRouterTokens(Proxied(resp, input.body))
        IN  got # <<>> =>
                /\ input.status < 400
                /\ \E i \in DOMAIN input.body : LET p == input.body[i] IN
                       /\ p \in DOMAIN usageBlocks
                       /\ got[1] = usageBlocks[p].completion
                       /\ (got[2] = "512") <=> (usageBlocks[p].prompt \in 1..512)

\* What is counted is what happened: tokens do not depend on how the stream was
\* cut into writes, counters do not run back, and the bill covers the rental.
MeteringSound == CountIgnoresChunking /\ RecordedIsReported /\ BillingSound

=============================================================================
