----------------------------- MODULE Knowledge ------------------------------
(***************************************************************************)
(* The knowledge an agent writes and reads: the replicated graph of facts, *)
(* and the store of document chunks with its two indexes. Each part is a   *)
(* specification of its own, with its own initial state and next-state     *)
(* relation; a behaviour is a behaviour of one of them.                    *)
(***************************************************************************)
EXTENDS FiniteSets, SequencesExt, Integers, FiniteSetsExt

-----------------------------------------------------------------------------
(***************************************************************************)
(* The knowledge graph (kg/store.go, air/knowstore, the `air kg`           *)
(* commands): an append-only, hash-chained log of assertions and           *)
(* tombstones, of which the active facts are a fold.  `air kg serve` puts  *)
(* the store behind one mutex, checks a corpus grant for every operation   *)
(* and audits it; `air kg sync` pulls a corpus from a server and appends   *)
(* what it lacks to a local log, which another server may serve later.     *)
(*                                                                         *)
(* The model has two or more replicas that are served, stopped, synced     *)
(* into and served again; callers with different grants; writes that fail  *)
(* before, during or after the line is in the file; and failing audits.    *)
(* A record's hash is what it stands for, the position in its own log; the *)
(* subject, predicate and object of a fact are its identity.               *)
(***************************************************************************)
CONSTANTS
  Replicas, Corpora,
  Grant,        \* caller -> the corpora it is granted literally
  Reads,        \* caller -> the corpora its grants cover for reading
  MaxFacts, MaxRecords, MaxFaults, MaxSyncs, MaxAuditFails

VARIABLES
  file,      \* replica -> the lines of its log: [seq, prev, op, id] or Half
  mem,       \* replica -> the records its server has loaded, or Down
  seq,       \* replica -> Store.seq
  corpusOf,  \* fact -> the corpus it was asserted in
  writer,    \* tombstoned fact -> who superseded it
  alias,     \* <<replica, corpus>> -> [at, facts]: the cached alias index
  resolved,  \* what the last Canonical used, and what it should have used
  receipts,  \* facts whose writer got a receipt
  audited,   \* facts with an allow record
  pulled,    \* replica -> what its last sync was handed
  faults, syncs, auditFails

kgVars == <<file, mem, seq, corpusOf, writer, alias, resolved, receipts, audited, pulled, faults, syncs, auditFails>>

Callers == DOMAIN Grant
GraphHalf == [seq |-> 0, prev |-> 0, op |-> "half", id |-> 0]
Down == <<GraphHalf>>
Facts == 1 .. MaxFacts
Nothing == [asserted |-> {}, gone |-> {}]

Up(r) == mem[r] # Down

(***************************************************************************)
(* Active: the facts asserted up to asOf that no record up to asOf         *)
(* deletes, whatever the order of the two.                                 *)
(***************************************************************************)
Active(log, asOf) ==
  LET upto == {log[i] : i \in {j \in 1 .. Len(log) : log[j].seq <= asOf}}
  IN  {e.id : e \in {x \in upto : x.op = "assert"}} \ {e.id : e \in {x \in upto : x.op = "delete"}}

Visible(facts, c) == {f \in facts : corpusOf[f] = c}

(***************************************************************************)
(* Verify: numbers without a gap, every record on top of the one before.   *)
(***************************************************************************)
Verify(log) == \A i \in 1 .. Len(log) : log[i].seq = i /\ log[i].prev = i - 1

(***************************************************************************)
(* appendRecord.  The number is taken first; a write that fails gives it   *)
(* back and leaves the memory as it was.  How much of the line is in the   *)
(* file by then the store does not know.                                   *)
(* (Mutated form: the number is not given back.)                           *)
(***************************************************************************)
RollbackNothing(r) == seq[r] + 1

Rollback(r) == seq[r]

Line(log, n, op, f) == [seq |-> n + 1, prev |-> IF log = <<>> THEN 0 ELSE Last(log).seq, op |-> op, id |-> f]

Appended(r, op, f) ==
  /\ mem' = [mem EXCEPT ![r] = Append(@, Line(@, seq[r], op, f))]
  /\ file' = [file EXCEPT ![r] = Append(@, Line(mem[r], seq[r], op, f))]
  /\ seq' = [seq EXCEPT ![r] = @ + 1]
  /\ UNCHANGED faults

AppendFails(r, op, f) ==
  /\ faults < MaxFaults /\ faults' = faults + 1
  /\ seq' = [seq EXCEPT ![r] = Rollback(r)]
  /\ \E left \in {<<>>, <<GraphHalf>>, <<Line(mem[r], seq[r], op, f)>>} : file' = [file EXCEPT ![r] = @ \o left]
  /\ UNCHANGED mem

(***************************************************************************)
(* know.Allowed: a read needs a covering grant, a write a literal one.     *)
(***************************************************************************)
Allowed(u, c) == c \in Grant[u]

Fits(r) == Len(file[r]) < MaxRecords

(***************************************************************************)
(* Facade.Assert: gate, store, audit.  The audit comes last: when it fails *)
(* the caller is told of an error although the fact stays.                 *)
(***************************************************************************)
NewFact == Cardinality(DOMAIN corpusOf) + 1

(* (Mutated form: the receipt does not wait for the audit.) *)
AuditAfter(f) ==
  /\ receipts' = receipts \cup {f}
  /\ \/ audited' = audited \cup {f} /\ UNCHANGED auditFails
     \/ auditFails < MaxAuditFails /\ auditFails' = auditFails + 1 /\ UNCHANGED audited

Audit(f) ==
  \/ /\ audited' = audited \cup {f} /\ receipts' = receipts \cup {f}
     /\ UNCHANGED auditFails
  \/ /\ auditFails < MaxAuditFails /\ auditFails' = auditFails + 1
     /\ UNCHANGED <<audited, receipts>>

AssertFact(u, r, c) ==
  /\ Up(r) /\ Fits(r) /\ NewFact <= MaxFacts /\ Allowed(u, c)
  /\ corpusOf' = Append(corpusOf, c)
  /\ \/ Appended(r, "assert", NewFact) /\ Audit(NewFact)
     \/ AppendFails(r, "assert", NewFact) /\ UNCHANGED <<audited, receipts, auditFails>>
  /\ UNCHANGED <<writer, alias, resolved, pulled, syncs>>

(***************************************************************************)
(* Facade.Supersede: the old fact must be active and visible in the        *)
(* writer's corpus.  The new fact is appended before the tombstone; when   *)
(* the second append fails both stay.                                      *)
(***************************************************************************)
ActiveVisible(r, old, c) == old \in Visible(Active(mem[r], seq[r]), c)

TombstoneFails(r, old, new) ==
  LET n == Line(mem[r], seq[r], "assert", new)
  IN  /\ faults < MaxFaults /\ faults' = faults + 1
      /\ mem' = [mem EXCEPT ![r] = Append(@, n)]
      /\ file' = [file EXCEPT ![r] = Append(@, n)]
      /\ seq' = [seq EXCEPT ![r] = @ + 1]

Replaced(r, old, new) ==
  LET n == Line(mem[r], seq[r], "assert", new)
      d == Line(Append(mem[r], n), seq[r] + 1, "delete", old)
  IN  /\ mem' = [mem EXCEPT ![r] = @ \o <<n, d>>]
      /\ file' = [file EXCEPT ![r] = @ \o <<n, d>>]
      /\ seq' = [seq EXCEPT ![r] = @ + 2]
      /\ UNCHANGED faults

Supersede(u, r, c, old) ==
  /\ Up(r) /\ Fits(r) /\ NewFact <= MaxFacts /\ Allowed(u, c)
  /\ ActiveVisible(r, old, c)
  /\ corpusOf' = Append(corpusOf, c)
  /\ \/ Replaced(r, old, NewFact) /\ Audit(NewFact) /\ writer' = [writer EXCEPT ![old] = u]
     \/ TombstoneFails(r, old, NewFact) /\ UNCHANGED <<audited, receipts, auditFails, writer>>
     \/ AppendFails(r, "assert", NewFact) /\ UNCHANGED <<audited, receipts, auditFails, writer>>
  /\ UNCHANGED <<alias, resolved, pulled, syncs>>

(***************************************************************************)
(* Facade.Canonical: the alias index of a corpus is kept until the head    *)
(* of the log moves.                                                       *)
(***************************************************************************)
Cached(r, c) == <<r, c>> \in DOMAIN alias /\ alias[<<r, c>>].at = seq[r]

Canonical(u, r, c) ==
  /\ Up(r) /\ c \in Reads[u]
  /\ LET fresh == [at |-> seq[r], facts |-> Visible(Active(mem[r], seq[r]), c)]
         used == IF Cached(r, c) THEN alias[<<r, c>>] ELSE fresh
     IN  /\ alias' = [k \in DOMAIN alias \cup {<<r, c>>} |-> IF k = <<r, c>> THEN used ELSE alias[k]]
         /\ resolved' = <<used.facts, fresh.facts>>
  /\ UNCHANGED <<file, mem, seq, corpusOf, writer, receipts, audited, pulled, faults, syncs, auditFails>>

(***************************************************************************)
(* Facade.Delta: the records above the watermark that belong to a corpus.  *)
(* A tombstone names no corpus; it belongs where its fact does.            *)
(***************************************************************************)
Belongs(e, log, c) ==
  /\ e.op = "delete" => \E i \in 1 .. Len(log) : log[i].op = "assert" /\ log[i].id = e.id
  /\ corpusOf[e.id] = c

Delta(r, c, since) == SelectSeq(mem[r], LAMBDA e : e.seq > since /\ Belongs(e, mem[r], c))

(***************************************************************************)
(* ApplyDelta: what the local log lacks, in the order received, appended   *)
(* to the local chain.  `air kg sync` opens the local file itself, so no   *)
(* server may be running on it.                                            *)
(***************************************************************************)
Lacks(log, e) == \A i \in 1 .. Len(log) : ~(log[i].id = e.id /\ log[i].op = e.op)

Apply(log, recs) ==
  FoldLeft(LAMBDA acc, e : IF Lacks(acc, e) THEN Append(acc, Line(acc, IF acc = <<>> THEN 0 ELSE Last(acc).seq, e.op, e.id)) ELSE acc, log, recs)

Opens(r) == \A i \in 1 .. Len(file[r]) : file[r][i] # GraphHalf

Sync(u, from, to, c, since) ==
  /\ Up(from) /\ from # to /\ ~Up(to) /\ Opens(to) /\ c \in Reads[u]
  /\ syncs < MaxSyncs /\ syncs' = syncs + 1
  /\ since <= seq[from]
  /\ LET recs == Delta(from, c, since)
         all == Apply(file[to], recs)
     IN  /\ Len(all) <= MaxRecords
         /\ \E n \in Len(file[to]) .. Len(all) :
              /\ file' = [file EXCEPT ![to] = SubSeq(all, 1, n)]
              /\ IF n = Len(all)
                 THEN /\ UNCHANGED faults
                      /\ pulled' = [pulled EXCEPT ![to] =
                           IF since = 0
                           THEN [asserted |-> Visible(Active(mem[from], seq[from]), c),
                                 gone |-> Visible({mem[from][i].id : i \in {j \in 1 .. Len(mem[from]) : mem[from][j].op = "delete"}}, c)]
                           ELSE @]
                 ELSE faults < MaxFaults /\ faults' = faults + 1 /\ UNCHANGED pulled
  /\ UNCHANGED <<mem, seq, corpusOf, writer, alias, resolved, receipts, audited, auditFails>>

(***************************************************************************)
(* Serve opens the file, which fails on a line it cannot decode; the head  *)
(* is what the last record says.  Stop is a clean exit or a crash: memory  *)
(* goes, the file stays.                                                   *)
(***************************************************************************)
Serve(r) ==
  /\ ~Up(r) /\ Opens(r)
  /\ mem' = [mem EXCEPT ![r] = file[r]]
  /\ seq' = [seq EXCEPT ![r] = IF file[r] = <<>> THEN 0 ELSE Last(file[r]).seq]
  /\ UNCHANGED <<file, corpusOf, writer, alias, resolved, receipts, audited, pulled, faults, syncs, auditFails>>

GraphStop(r) ==
  /\ Up(r)
  /\ mem' = [mem EXCEPT ![r] = Down]
  /\ alias' = [k \in {x \in DOMAIN alias : x[1] # r} |-> alias[k]]
  /\ UNCHANGED <<file, seq, corpusOf, writer, resolved, receipts, audited, pulled, faults, syncs, auditFails>>

GraphInit ==
  /\ file = [r \in Replicas |-> <<>>] /\ mem = [r \in Replicas |-> Down] /\ seq = [r \in Replicas |-> 0]
  /\ corpusOf = <<>> /\ writer = [f \in Facts |-> "nobody"]
  /\ alias = <<>> /\ resolved = <<{}, {}>>
  /\ receipts = {} /\ audited = {} /\ pulled = [r \in Replicas |-> Nothing]
  /\ faults = 0 /\ syncs = 0 /\ auditFails = 0

GraphNext ==
  \/ \E r \in Replicas : Serve(r) \/ GraphStop(r)
  \/ \E u \in Callers, r \in Replicas, c \in Corpora :
       \/ AssertFact(u, r, c) \/ Canonical(u, r, c)
       \/ \E old \in Facts : Supersede(u, r, c, old)
       \/ \E to \in Replicas, since \in 0 .. MaxRecords : Sync(u, r, to, c, since)

GraphSpec == GraphInit /\ [][GraphNext]_kgVars

(***************************************************************************)
(* As long as no write has failed, the chain of every server and of every  *)
(* file verifies, whatever was synced into it and in whatever order        *)
(* (ApplyDelta re-appends under the local chain).                          *)
(***************************************************************************)
ChainsVerify == \A r \in Replicas : faults = 0 => Verify(file[r]) /\ (Up(r) => Verify(mem[r]))

(***************************************************************************)
(* No resurrection: where a tombstone has arrived the fact stays inactive, *)
(* also when its assertion arrives afterwards through another sync.        *)
(***************************************************************************)
StaysDead ==
  \A r \in Replicas : Up(r) =>
    \A i \in 1 .. Len(mem[r]) : mem[r][i].op = "delete" => mem[r][i].id \notin Active(mem[r], Len(mem[r]) + 1)

(***************************************************************************)
(* A completed sync of the whole corpus brings everything: what was active *)
(* at the source is known here, and what was tombstoned there is not       *)
(* active here (ApplyDelta: "TOMBSTONES survive a sync round-trip").       *)
(***************************************************************************)
SyncComplete ==
  \A r \in Replicas :
    LET has(op) == {file[r][i].id : i \in {j \in 1 .. Len(file[r]) : file[r][j].op = op}}
    IN  /\ pulled[r].asserted \subseteq has("assert")
        /\ pulled[r].gone \subseteq has("delete")

(***************************************************************************)
(* A fact is tombstoned only by a caller with a literal grant of the       *)
(* corpus the fact is in, whichever corpus the request named.              *)
(***************************************************************************)
OwnCorpus == \A f \in Facts : writer[f] # "nobody" => corpusOf[f] \in Grant[writer[f]]

(***************************************************************************)
(* A name is resolved against the facts of this moment.                    *)
(***************************************************************************)
AliasCurrent == resolved[1] = resolved[2]

(***************************************************************************)
(* Whoever holds a receipt is in the ledger.                               *)
(***************************************************************************)
ReceiptsAudited == receipts \subseteq audited

GraphsHold == ChainsVerify /\ StaysDead /\ SyncComplete /\ OwnCorpus /\ AliasCurrent /\ ReceiptsAudited

(***************************************************************************)
(* While a server runs on a chain that verifies: the chain keeps           *)
(* verifying, also across failed writes; the facts active as of a number   *)
(* stay those, whatever is appended afterwards; and a fact disappears only *)
(* together with the arrival of its successor in the same corpus.          *)
(***************************************************************************)
PastStays ==
  \A r \in Replicas : mem[r] # Down /\ mem'[r] # Down /\ Verify(mem[r]) =>
    /\ \A n \in 1 .. Len(mem[r]) : Active(mem'[r], n) = Active(mem[r], n)
    /\ Verify(mem'[r])
    /\ LET before == Active(mem[r], seq[r])
           after == Active(mem'[r], seq'[r])
       IN  \A f \in before \ after : \E g \in after \ before : corpusOf'[g] = corpusOf'[f]

(***************************************************************************)
(* "Every governed op is gated, provenance-stamped, and audited before it  *)
(* can touch the store" (air/knowstore/facade.go).  The code does not      *)
(* provide this: the audit is the last step and may fail.                  *)
(***************************************************************************)
AuditedFirst ==
  \A r \in Replicas : Up(r) => \A i \in 1 .. Len(mem[r]) : mem[r][i].op = "assert" => mem[r][i].id \in audited

-----------------------------------------------------------------------------
(***************************************************************************)
(* `air rag serve` (cmd/meshmcp/airrag.go, airrag_store.go) over           *)
(* vectors/store.go and air/rag: a document is cut into sections and       *)
(* overlapping windows of tokens; every window is a chunk in a vector      *)
(* index with an append-only file, and in a keyword index that lives in    *)
(* memory and is rebuilt at start; the sections are kept in a file of      *)
(* their own.  Chunk and section identifiers are positions in the          *)
(* document: a document sent again replaces its chunks one by one.         *)
(*                                                                         *)
(* Scores are abstract: a search returns some k of its candidates.         *)
(***************************************************************************)
CONSTANTS
  Docs,       \* document version -> [doc, sections]: the sections are sequences of tokens
  Requests,   \* request -> [corpus, docs, granted]
  Words,
  chunkSize, overlap,   \* --chunk and --overlap as given
  Rows,       \* how many chunks a search may return
  MaxRestarts

VARIABLES
  index,     \* vectors.Index.docs: chunk id -> [corpus, text]
  lines,     \* its file
  words,     \* BM25: what was added, <<id, text>> in order
  parents, parentLines,   \* section id -> version, and its file
  req,       \* request -> [pc, at]
  shown,     \* what the last search returned
  up, restarts

ragVars == <<index, lines, words, parents, parentLines, req, shown, up, faults, restarts>>

None == <<>>
RagHalf == <<"half">>

(***************************************************************************)
(* ChunkDocument: windows of `size` tokens that start size - overlap       *)
(* apart, the last one where the section ends.                             *)
(***************************************************************************)
Stride == IF overlap >= chunkSize THEN 1 ELSE chunkSize - overlap

Starts(n) == {s \in 0 .. n - 1 : s % Stride = 0 /\ (s = 0 \/ (s - Stride) + chunkSize < n)}

Window(sec, s) == SubSeq(sec, s + 1, Min({s + chunkSize, Len(sec)}))

(* ord runs through the whole document; the id names section and ord *)
Chunks(d) ==
  LET secs == Docs[d].sections
      before(i) == FoldFunction(+, 0, [j \in 1 .. i - 1 |-> Cardinality(Starts(Len(secs[j])))])
  IN  UNION {{[id |-> <<Docs[d].doc, i, before(i) + s \div Stride>>, text |-> Window(secs[i], s)] : s \in Starts(Len(secs[i]))}
             : i \in DOMAIN secs}

ChunkOrder(d) == SetToSortSeq(Chunks(d), LAMBDA a, b : a.id[3] < b.id[3])

Sections(d) == {<<Docs[d].doc, i>> : i \in DOMAIN Docs[d].sections}

(***************************************************************************)
(* What a file holds for an id is its last line.                           *)
(***************************************************************************)
ReadBack(stored) == [k \in {stored[i][1] : i \in DOMAIN stored} |->
  stored[CHOOSE i \in DOMAIN stored : stored[i][1] = k /\ \A j \in DOMAIN stored : stored[j][1] = k => j <= i][2]]

Put(f, k, v) == [x \in DOMAIN f \cup {k} |-> IF x = k THEN v ELSE f[x]]

(* BM25.Add: a chunk that is there already is added once more.             *)
BM25Add(ws, entries) == ws \o [i \in DOMAIN entries |-> <<entries[i][1], entries[i][2].text>>]

PutAll(f, entries) == FoldLeft(LAMBDA acc, e : Put(acc, e[1], e[2]), f, entries)

(***************************************************************************)
(* Ingest, under the store's mutex.  Sections the map does not have yet go *)
(* to memory and then to their file, in any order; then every chunk goes   *)
(* to the index, to its file and to the keyword index.  The first failing  *)
(* write ends it, with memory one entry ahead of the file.                 *)
(***************************************************************************)
NewSections(d) == Sections(d) \ DOMAIN parents

SectionsStored(d, known) ==
  /\ parents' = [k \in DOMAIN parents \cup known |-> IF k \in DOMAIN parents THEN parents[k] ELSE d]

IngestWhole(d, c) ==
  LET entries == [i \in DOMAIN ChunkOrder(d) |-> <<ChunkOrder(d)[i].id, [corpus |-> c, text |-> ChunkOrder(d)[i].text]>>]
  IN  /\ SectionsStored(d, NewSections(d))
      /\ parentLines' = parentLines \o [i \in DOMAIN SetToSeq(NewSections(d)) |-> <<SetToSeq(NewSections(d))[i], d>>]
      /\ index' = PutAll(index, entries)
      /\ lines' = lines \o entries
      /\ words' = BM25Add(words, entries)
      /\ UNCHANGED faults

SectionFails(d) ==
  \E k \in NewSections(d), done \in SUBSET NewSections(d) :
    /\ k \notin done
    /\ SectionsStored(d, done \cup {k})
    /\ \E left \in {<<>>, <<RagHalf>>} :
         parentLines' = parentLines \o [i \in DOMAIN SetToSeq(done) |-> <<SetToSeq(done)[i], d>>] \o left
    /\ UNCHANGED <<index, lines, words>>

ChunkFails(d, c) ==
  LET entries == [i \in DOMAIN ChunkOrder(d) |-> <<ChunkOrder(d)[i].id, [corpus |-> c, text |-> ChunkOrder(d)[i].text]>>]
  IN  \E n \in DOMAIN entries :
        /\ SectionsStored(d, NewSections(d))
        /\ parentLines' = parentLines \o [i \in DOMAIN SetToSeq(NewSections(d)) |-> <<SetToSeq(NewSections(d))[i], d>>]
        /\ index' = PutAll(index, SubSeq(entries, 1, n))
        /\ \E left \in {<<>>, <<RagHalf>>} : lines' = lines \o SubSeq(entries, 1, n - 1) \o left
        /\ words' = BM25Add(words, SubSeq(entries, 1, n - 1))

(***************************************************************************)
(* /v1/rag/ingest: the literal write grant, then document after document;  *)
(* a failing one ends the request with an error although those before it   *)
(* are stored, and no ledger record is written.                            *)
(***************************************************************************)
IngestDoc(r) ==
  /\ up /\ req[r].pc = "run" /\ req[r].at <= Len(Requests[r].docs)
  /\ IngestWhole(Requests[r].docs[req[r].at], Requests[r].corpus)
  /\ req' = [req EXCEPT ![r].at = @ + 1]
  /\ UNCHANGED <<shown, up, restarts>>

(* (Mutated form: the error is dropped.) *)
FailedIgnored(r) == [req EXCEPT ![r].at = @ + 1]

Failed(r) == [req EXCEPT ![r].pc = "error"]

IngestFails(r) ==
  /\ up /\ req[r].pc = "run" /\ req[r].at <= Len(Requests[r].docs)
  /\ faults < MaxFaults /\ faults' = faults + 1
  /\ LET d == Requests[r].docs[req[r].at] IN SectionFails(d) \/ ChunkFails(d, Requests[r].corpus)
  /\ req' = Failed(r)
  /\ UNCHANGED <<shown, up, restarts>>

Begin(r) ==
  /\ up /\ req[r].pc = "idle"
  /\ req' = [req EXCEPT ![r].pc = IF Requests[r].granted THEN "run" ELSE "denied"]
  /\ UNCHANGED <<index, lines, words, parents, parentLines, shown, up, faults, restarts>>

Answer(r) ==
  /\ up /\ req[r].pc = "run" /\ req[r].at > Len(Requests[r].docs)
  /\ req' = [req EXCEPT ![r].pc = "ok"]
  /\ UNCHANGED <<index, lines, words, parents, parentLines, shown, up, faults, restarts>>

(***************************************************************************)
(* Search: the chunks of the corpus by vector, and those the keyword index *)
(* knows for the word that are in the corpus by now.                       *)
(***************************************************************************)
Lex(c, w) == {id \in {words[i][1] : i \in {j \in DOMAIN words : \E k \in DOMAIN words[j][2] : words[j][2][k] = w}} :
                id \in DOMAIN index /\ index[id].corpus = c}

Dense(c) == {id \in DOMAIN index : index[id].corpus = c}

Fused(cand) == {h \in SUBSET cand : Cardinality(h) = Min({Rows, Cardinality(cand)})}

Found(c, w) == Fused(Dense(c) \cup Lex(c, w))

(* /v1/rag/search, for the corpora the caller may read.                    *)
Search(c, w) ==
  /\ up
  /\ \E h \in Found(c, w) : shown' = [corpus |-> c, hits |-> {index[id] : id \in h}]
  /\ UNCHANGED <<index, lines, words, parents, parentLines, req, up, faults, restarts>>

loadParents == ReadBack(parentLines)

(***************************************************************************)
(* A restart at any moment; newRagStore fails on a line it cannot decode.  *)
(***************************************************************************)
RagStop ==
  /\ up /\ restarts < MaxRestarts
  /\ up' = FALSE /\ restarts' = restarts + 1
  /\ req' = [r \in DOMAIN req |-> IF req[r].pc = "run" THEN [req[r] EXCEPT !.pc = "error"] ELSE req[r]]
  /\ UNCHANGED <<index, lines, words, parents, parentLines, shown, faults>>

Start ==
  /\ ~up /\ RagHalf \notin Range(lines) \cup Range(parentLines)
  /\ up' = TRUE
  /\ index' = ReadBack(lines) /\ parents' = loadParents
  /\ words' = BM25Add(<<>>, SetToSeq({<<id, ReadBack(lines)[id]>> : id \in DOMAIN ReadBack(lines)}))
  /\ UNCHANGED <<lines, parentLines, req, shown, faults, restarts>>

RagInit ==
  /\ index = <<>> /\ lines = <<>> /\ words = <<>> /\ parents = <<>> /\ parentLines = <<>>
  /\ req = [r \in DOMAIN Requests |-> [pc |-> "idle", at |-> 1]]
  /\ shown = [corpus |-> "none", hits |-> {}] /\ up = TRUE /\ faults = 0 /\ restarts = 0

RagNext ==
  \/ \E r \in DOMAIN Requests : Begin(r) \/ IngestDoc(r) \/ IngestFails(r) \/ Answer(r)
  \/ \E c \in Corpora, w \in Words : Search(c, w)
  \/ RagStop \/ Start

RagSpec == RagInit /\ [][RagNext]_ragVars

(***************************************************************************)
(* What an answered request carried can be found, whatever failed before   *)
(* or after it and across restarts: every word of every section is in a    *)
(* chunk of that section, in the file and, when the store is open, in the  *)
(* index; unless the same document was sent once more.                     *)
(***************************************************************************)
LastSent(r) == \A q \in DOMAIN Requests \ {r} : req[q].pc = "idle" \/
  {Docs[Requests[q].docs[i]].doc : i \in DOMAIN Requests[q].docs} \cap {Docs[Requests[r].docs[i]].doc : i \in DOMAIN Requests[r].docs} = {}

Findable ==
  \A r \in DOMAIN Requests : req[r].pc = "ok" /\ LastSent(r) =>
    \A n \in DOMAIN Requests[r].docs : LET d == Requests[r].docs[n] IN
      \A i \in DOMAIN Docs[d].sections : \A k \in DOMAIN Docs[d].sections[i] :
        /\ \E j \in DOMAIN lines : /\ lines[j] # RagHalf /\ lines[j][1][1] = Docs[d].doc /\ lines[j][1][2] = i
                                   /\ Docs[d].sections[i][k] \in Range(lines[j][2].text)
        /\ up => \E id \in DOMAIN index : /\ id[1] = Docs[d].doc /\ id[2] = i /\ index[id].corpus = Requests[r].corpus
                                          /\ Docs[d].sections[i][k] \in Range(index[id].text)

(***************************************************************************)
(* Until a write has failed, an open store serves what a restarted one     *)
(* would: vectors and sections are those of the files.                     *)
(***************************************************************************)
ServesTheFile ==
  up /\ faults = 0 =>
    /\ \A id \in DOMAIN index : \E i \in DOMAIN lines : /\ lines[i] = <<id, index[id]>>
                                                       /\ \A j \in i + 1 .. Len(lines) : lines[j][1] # id
    /\ DOMAIN parents = {parentLines[i][1] : i \in DOMAIN parentLines}

(***************************************************************************)
(* A search returns chunks of the corpus it names, also for a chunk that   *)
(* another ingest has moved to another corpus since it was indexed.        *)
(***************************************************************************)
Scoped == \A h \in shown.hits : h.corpus = shown.corpus

RagHolds == Findable /\ ServesTheFile /\ Scoped

(***************************************************************************)
(* newRagStore "rebuilds the BM25 index over every stored chunk so the     *)
(* keyword arm survives a restart".  The code does not provide this for a  *)
(* document that was sent twice: until the restart the old text of a chunk *)
(* is still in the keyword index.                                          *)
(***************************************************************************)
KeywordArmSurvives == up /\ faults = 0 => Range(words) = {<<id, index[id].text>> : id \in DOMAIN index}

=============================================================================
