-------------------------------- MODULE Corpus ---------------------------------
(* The corpus: text is cut into chunks and stored, queried under a rate limit,*)
(* and cited by drafts that are checked against it.                          *)
EXTENDS Naturals, Sequences, FiniteSets
LOCAL INSTANCE SequencesExt

--------------------------------------------------------------------------------
(* POST /api/corpus-chunks: chunkText (packages/core/chunker.ts), one step  *)
(* per sentence, then one INSERT per chunk, outside any transaction.  Two   *)
(* uploads of one text and source stand for a request and its retry.  A     *)
(* text is the sequence of the lengths of its sentences; its words are 1,   *)
(* 2, 3, ...                                                                *)

CONSTANTS
    Uploads,        \* requests
    Texts,          \* texts: sequences of sentence lengths
    Ceilings        \* values of max_tokens

ASSUME CorpusAssumption ==
    Texts \subseteq Seq(Nat \ {0}) /\ Ceilings \subseteq Nat \ {0}

VARIABLES
    text, ceiling,  \* the body of the request
    upload,         \* Uploads -> the handler's locals
    corpus          \* rows of type corpus_chunk: [id, index, words]

corpusVars == <<text, ceiling, upload, corpus>>

WordsUpTo(n) == FoldSeq(LAMBDA len, acc : len + acc, 0, SubSeq(text, 1, n))
AllWords == [k \in 1 .. WordsUpTo(Len(text)) |-> k]

(* splitIntoSentences: the words of the n-th sentence.                      *)
Sentence(n) == SubSeq(AllWords, WordsUpTo(n - 1) + 1, WordsUpTo(n))

NewUpload == [pc |-> "idle", at |-> 1, buffer |-> <<>>, chunks |-> <<>>, answer |-> <<>>]

CorpusInit ==
    /\ text \in Texts /\ ceiling \in Ceilings
    /\ upload = [u \in Uploads |-> NewUpload]
    /\ corpus = {}

(* The source entity exists; the text is split.                             *)
BeginUpload(u) ==
    /\ upload[u].pc = "idle"
    /\ upload' = [upload EXCEPT ![u].pc = "chunking"]
    /\ UNCHANGED <<text, ceiling, corpus>>

(* An oversized sentence, cut at every ceiling words.                       *)
Slices(w) ==
    [k \in 1 .. (Len(w) + ceiling - 1) \div ceiling |->
        SubSeq(w, (k - 1) * ceiling + 1, IF k * ceiling <= Len(w) THEN k * ceiling ELSE Len(w))]

(* One pass of the loop over the sentences: flush the buffer if the         *)
(* sentence does not fit, then cut an oversized sentence or buffer it.      *)
TakeSentence(r, w) ==
    LET over == r.buffer # <<>> /\ Len(r.buffer) + Len(w) > ceiling
        flushed == IF over THEN Append(r.chunks, r.buffer) ELSE r.chunks
        rest == IF over THEN <<>> ELSE r.buffer
    IN  IF Len(w) > ceiling
        THEN [r EXCEPT !.chunks = flushed \o Slices(w), !.buffer = rest]
        ELSE [r EXCEPT !.chunks = flushed, !.buffer = rest \o w]

ChunkSentence(u) ==
    /\ upload[u].pc = "chunking" /\ upload[u].at <= Len(text)
    /\ upload' = [upload EXCEPT ![u] = [TakeSentence(@, Sentence(@.at)) EXCEPT !.at = @ + 1]]
    /\ UNCHANGED <<text, ceiling, corpus>>

(* The last flush; a blank text is answered with no chunks.                 *)
EndChunking(u) ==
    /\ upload[u].pc = "chunking" /\ upload[u].at > Len(text)
    /\ LET chunks == IF upload[u].buffer = <<>> THEN upload[u].chunks
                     ELSE Append(upload[u].chunks, upload[u].buffer)
       IN  upload' = [upload EXCEPT ![u] = [@ EXCEPT !.chunks = chunks, !.buffer = <<>>,
                                                     !.pc = IF chunks = <<>> THEN "answered" ELSE "inserting"]]
    /\ UNCHANGED <<text, ceiling, corpus>>

(* Encrypt and INSERT one chunk under a fresh id (a UUID; here a pair that   *)
(* no other INSERT uses), which goes into chunkRows; the answer follows the *)
(* last.  All rows name the same source.                                    *)
InsertChunk(u) ==
    LET n == Len(upload[u].answer) + 1
        id == <<u, n>> IN
    /\ upload[u].pc = "inserting"
    /\ corpus' = corpus \cup {[id |-> id, index |-> n - 1, words |-> upload[u].chunks[n]]}
    /\ upload' = [upload EXCEPT ![u].answer = Append(@, id),
                                ![u].pc = IF n = Len(upload[u].chunks) THEN "answered" ELSE @]
    /\ UNCHANGED <<text, ceiling>>

(* Encryption or an INSERT throws, or the server stops: what was inserted   *)
(* stays.                                                                   *)
UploadFails(u) ==
    /\ upload[u].pc = "inserting"
    /\ upload' = [upload EXCEPT ![u].pc = "failed"]
    /\ UNCHANGED <<text, ceiling, corpus>>

CorpusNext ==
    \E u \in Uploads :
        BeginUpload(u) \/ ChunkSentence(u) \/ EndChunking(u) \/ InsertChunk(u) \/ UploadFails(u)

CorpusSpec == CorpusInit /\ [][CorpusNext]_corpusVars

-----------------------------------------------------------------------------
Chunked(u) == upload[u].pc \in {"inserting", "answered", "failed"}

(* Chunking loses, repeats and reorders no word of the text, and every      *)
(* chunk has between one word and the ceiling, whatever mixture of short    *)
(* and oversized sentences the text has.                                    *)
ChunksAreTheText ==
    \A u \in Uploads : Chunked(u) =>
        /\ FlattenSeq(upload[u].chunks) = AllWords
        /\ \A k \in 1 .. Len(upload[u].chunks) : Len(upload[u].chunks[k]) \in 1 .. ceiling

(* A sentence that fits in a chunk is never split over two: chunks are      *)
(* bounded by sentences.                                                    *)
SentencesKeptWhole ==
    \A u \in Uploads, n \in 1 .. Len(text) :
        Chunked(u) /\ text[n] <= ceiling =>
            \E k \in 1 .. Len(upload[u].chunks) : ToSet(Sentence(n)) \subseteq ToSet(upload[u].chunks[k])

(* An upload that is answered names one row for each of its chunks, and the *)
(* rows, put in the order of the answer, are the text.  An upload that      *)
(* failed leaves the rows of a beginning of the text behind, which no other *)
(* upload's answer names; the handler's comment, that all rows are written  *)
(* in a single transaction, does not hold.                                  *)
AnsweredIsStored ==
    \A u \in Uploads :
        LET row(k) == CHOOSE r \in corpus : r.id = upload[u].answer[k] IN
        /\ upload[u].pc = "answered" =>
              FlattenSeq([k \in 1 .. Len(upload[u].answer) |-> row(k).words]) = AllWords
        /\ \A k \in 1 .. Len(upload[u].answer) : row(k).index = k - 1
        /\ \A v \in Uploads \ {u} : ToSet(upload[u].answer) \cap ToSet(upload[v].answer) = {}

--------------------------------------------------------------------------------
(* The reads that write an audit event before data flows: queryByEmbedding *)
(* with its sliding window per tenant (packages/db/corpus-chunk-store.ts), *)
(* GET /api/bdm/campaign and its export (api/bdm-campaign.ts), for one     *)
(* tenant.  The window is checked before the event is written and charged  *)
(* after, so that requests of one tenant overlap in between.               *)

CONSTANTS
    Readers,                    \* requests in progress at once
    EmbedMax, EmbedWindow,      \* EMBEDDING_QUERY_RATE_LIMIT, _WINDOW_MS
    MaxNow, MaxEvents           \* bounds on time, and on events and answers of a kind

ASSUME QueryAssumption ==
    /\ IsFiniteSet(Readers) /\ EmbedMax \in Nat \ {0} /\ EmbedWindow \in Nat \ {0}
    /\ MaxNow \in Nat /\ MaxEvents \in Nat

Kinds == {"similarity", "campaign", "export"}

VARIABLES
    now,            \* Date.now()
    window,         \* the timestamps in EmbeddingRateLimiter.store
    reader,         \* Readers -> [pc, kind]
    events,         \* audit events committed: kind -> number
    answers,        \* answers with data sent: kind -> number
    charged         \* history: requests ever charged to the window

queryVars == <<now, window, reader, events, answers, charged>>

Idle == [pc |-> "idle", kind |-> "similarity"]

QueryInit ==
    /\ now = 0 /\ window = <<>> /\ charged = 0
    /\ reader = [r \in Readers |-> Idle]
    /\ events = [k \in Kinds |-> 0]
    /\ answers = [k \in Kinds |-> 0]

QueryTypeOK ==
    /\ now \in 0 .. MaxNow /\ charged \in Nat
    /\ window \in Seq(0 .. MaxNow)
    /\ reader \in [Readers -> [pc : {"idle", "audit", "charge", "read", "export"}, kind : Kinds]]
    /\ events \in [Kinds -> Nat] /\ answers \in [Kinds -> Nat]

Live(s) == SelectSeq(s, LAMBDA ts : ts + EmbedWindow > now)

Allowed == Len(Live(window)) < EmbedMax

At(r, pc) == reader' = [reader EXCEPT ![r].pc = pc]

(* A similarity query passes check; refused ones are answered at once.     *)
AskSimilarity(r) ==
    /\ reader[r].pc = "idle" /\ Allowed
    /\ reader' = [reader EXCEPT ![r] = [pc |-> "audit", kind |-> "similarity"]]
    /\ UNCHANGED <<now, window, events, answers, charged>>

(* A campaign query or export, past the checks of session and role.        *)
AskCampaign(r, kind) ==
    /\ reader[r].pc = "idle" /\ kind \in {"campaign", "export"}
    /\ reader' = [reader EXCEPT ![r] = [pc |-> "audit", kind |-> kind]]
    /\ UNCHANGED <<now, window, events, answers, charged>>

(* The event of a query is committed; an export's query is audited as the  *)
(* campaign query it begins with.                                          *)
WriteQueryEvent(r) ==
    LET kind == IF reader[r].kind = "similarity" THEN "similarity" ELSE "campaign" IN
    /\ reader[r].pc = "audit" /\ events[kind] < MaxEvents
    /\ events' = [events EXCEPT ![kind] = @ + 1]
    /\ At(r, IF kind = "similarity" THEN "charge" ELSE "read")
    /\ UNCHANGED <<now, window, answers, charged>>

(* The event cannot be written (EmbeddingAuditError, or emitAuditEvent or  *)
(* the export's event throws): no data is sent.                            *)
EventFails(r) ==
    /\ reader[r].pc \in {"audit", "export"}
    /\ At(r, "idle")
    /\ UNCHANGED <<now, window, events, answers, charged>>

(* consume, in the continuation of the write.                              *)
Charge(r) ==
    /\ reader[r].pc = "charge"
    /\ window' = Append(Live(window), now)
    /\ charged' = charged + 1
    /\ At(r, "read")
    /\ UNCHANGED <<now, events, answers>>

(* An answer with data.                                                    *)
Send(r, kind) ==
    /\ answers[kind] < MaxEvents
    /\ answers' = [answers EXCEPT ![kind] = @ + 1]
    /\ At(r, "idle")

(* The rows are read: sent, or counted for the export's event.             *)
ReadRows(r) ==
    /\ reader[r].pc = "read"
    /\ \/ reader[r].kind # "export" /\ Send(r, reader[r].kind)
       \/ reader[r].kind = "export" /\ At(r, "export") /\ UNCHANGED answers
    /\ UNCHANGED <<now, window, events, charged>>

ReadFails(r) ==
    /\ reader[r].pc = "read"
    /\ At(r, "idle")
    /\ UNCHANGED <<now, window, events, answers, charged>>

(* writeCampaignExportAuditEvent, then the file.                           *)
ExportRows(r) ==
    /\ reader[r].pc = "export"
    /\ events' = [events EXCEPT !["export"] = @ + 1]
    /\ Send(r, "export")
    /\ UNCHANGED <<now, window, charged>>

TimePasses ==
    /\ now < MaxNow
    /\ now' = now + 1
    /\ UNCHANGED <<window, reader, events, answers, charged>>

QueryNext ==
    \/ TimePasses
    \/ \E r \in Readers :
          \/ AskSimilarity(r) \/ \E kind \in {"campaign", "export"} : AskCampaign(r, kind)
          \/ WriteQueryEvent(r) \/ EventFails(r) \/ Charge(r)
          \/ ReadRows(r) \/ ReadFails(r) \/ ExportRows(r)

QuerySpec == QueryInit /\ [][QueryNext]_queryVars

-----------------------------------------------------------------------------
(* No data leaves without its audit event: there are never more answers of *)
(* a kind than events, however requests overlap and whichever event could  *)
(* not be written; an exported file has an event of its own and the        *)
(* query's.                                                                *)
DataIsAudited ==
    /\ answers["similarity"] <= events["similarity"]
    /\ answers["campaign"] + answers["export"] <= events["campaign"]
    /\ answers["export"] <= events["export"]

(* What the gap between check and consume can cost: a window never holds   *)
(* more than the limit and one request for each other request in progress. *)
OvershootIsBounded == Len(Live(window)) <= EmbedMax + Cardinality(Readers) - 1

(* A request whose event could not be written is not charged, and none is  *)
(* charged twice: charges never outnumber events.                          *)
ChargedOnceAudited == charged <= events["similarity"]

--------------------------------------------------------------------------------
(* checkAndMarkDraft (packages/db/claim-citation-coverage.ts): a check reads *)
(* the draft, then its 'cites' relations, and patches the draft with the    *)
(* verdict; checks of one draft overlap, and relations are added meanwhile. *)
(* A claim is the set of chunk ids its citation markers name.               *)

CONSTANTS
    Checks,         \* calls of checkAndMarkDraft in progress at once
    Chunks,         \* corpus_chunk ids
    Drafts,         \* contents: sequences of claims
    SlaPercent,     \* slaThreshold, 0.99
    Priorities      \* priorities the draft may have had

ASSUME CitationAssumption ==
    /\ Drafts \subseteq Seq(SUBSET Chunks)
    /\ SlaPercent \in 0 .. 100

VARIABLES
    claims,         \* the content, by claim
    cites,          \* targets of the draft's 'cites' relations
    mark,           \* the draft's properties: [priority, blocked, checked]
    check,          \* Checks -> [pc, priority, ids]
    unlinked,       \* history: a check found no relation at all
    patched,        \* history: checks with a patch by another since their fetch
    lagged          \* history: the last patch was of a check in patched

citationVars == <<claims, cites, mark, check, unlinked, patched, lagged>>

CitationInit ==
    /\ claims \in Drafts
    /\ cites = {}
    /\ \E p \in Priorities : mark = [priority |-> p, blocked |-> FALSE, checked |-> FALSE]
    /\ check = [k \in Checks |-> [pc |-> "idle", priority |-> mark.priority, ids |-> {}]]
    /\ unlinked = FALSE /\ patched = {} /\ lagged = FALSE

(* A relation is inserted.                                                  *)
LinkChunk(c) ==
    /\ c \notin cites
    /\ cites' = cites \cup {c}
    /\ UNCHANGED <<claims, mark, check, unlinked, patched, lagged>>

(* SELECT ... FROM entities.                                                *)
FetchDraft(k) ==
    /\ check[k].pc = "idle"
    /\ check' = [check EXCEPT ![k] = [@ EXCEPT !.pc = "fetched", !.priority = mark.priority]]
    /\ patched' = patched \ {k}
    /\ UNCHANGED <<claims, cites, mark, unlinked, lagged>>

(* SELECT target_id FROM relations.                                         *)
FetchCites(k) ==
    /\ check[k].pc = "fetched"
    /\ check' = [check EXCEPT ![k] = [@ EXCEPT !.pc = "judging", !.ids = cites]]
    /\ unlinked' = (unlinked \/ cites = {})
    /\ UNCHANGED <<claims, cites, mark, patched, lagged>>

(* sentenceIsCited: with no allowed ids any marker will do.                 *)
Cited(claim, ids) == IF ids = {} THEN claim # {} ELSE claim \cap ids # {}

(* checkCitationCoverage; a draft with no claims passes.                    *)
Passes(ids) ==
    100 * Cardinality({n \in 1 .. Len(claims) : Cited(claims[n], ids)}) >= SlaPercent * Len(claims)

(* properties || patch: JSON drops an undefined value, and the row keeps    *)
(* the priority it has by now.                                              *)
Merge(priority) == IF priority = "undefined" THEN mark.priority ELSE priority

EndCheck(k) ==
    /\ check' = [check EXCEPT ![k].pc = "idle"]
    /\ patched' = {other \in Checks \ {k} : check[other].pc # "idle"} \cup (patched \ {k})
    /\ lagged' = (k \in patched)
    /\ UNCHANGED <<claims, cites, unlinked>>

(* A slip: a passing check clears P1 with undefined, which clears nothing.  *)
PatchDraft_ClearsNothing(k) ==
    /\ check[k].pc = "judging"
    /\ mark' = IF ~ Passes(check[k].ids) THEN [priority |-> "P1", blocked |-> TRUE, checked |-> TRUE]
               ELSE [priority |-> Merge(IF check[k].priority = "P1" THEN "undefined" ELSE check[k].priority),
                     blocked |-> FALSE, checked |-> TRUE]
    /\ EndCheck(k)

(* The patch: P1 and the block together; or the block lifted, P1 replaced   *)
(* by null and any other priority that was read written again.              *)
PatchDraft(k) ==
    /\ check[k].pc = "judging"
    /\ mark' = IF ~ Passes(check[k].ids) THEN [priority |-> "P1", blocked |-> TRUE, checked |-> TRUE]
               ELSE [priority |-> Merge(IF check[k].priority = "P1" THEN "null" ELSE check[k].priority),
                     blocked |-> FALSE, checked |-> TRUE]
    /\ EndCheck(k)

CitationNext ==
    \/ \E c \in Chunks : LinkChunk(c)
    \/ \E k \in Checks : FetchDraft(k) \/ FetchCites(k) \/ PatchDraft(k)

CitationSpec == CitationInit /\ [][CitationNext]_citationVars

-----------------------------------------------------------------------------
(* A draft of fewer than a hundred claims whose block is lifted has no      *)
(* uncited claim, whichever of two overlapping checks patched it last: each *)
(* claim names a chunk the draft is linked to, or, if a check found no link *)
(* at all, names one.                                                       *)
UnblockedIsCited ==
    mark.checked /\ ~ mark.blocked =>
        \A n \in 1 .. Len(claims) : claims[n] # {} /\ (unlinked \/ claims[n] \cap cites # {})

(* A draft whose publication is blocked is P1.  One whose block is lifted   *)
(* is not, unless the check that lifted it overlapped one that failed: a    *)
(* draft that had no priority then keeps the other's P1 until the next      *)
(* check.                                                                   *)
BlockedIsP1 ==
    mark.checked =>
        /\ mark.blocked => mark.priority = "P1"
        /\ ~ mark.blocked /\ mark.priority = "P1" => lagged

================================================================================
