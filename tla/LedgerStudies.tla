--------------------------- MODULE LedgerStudies ----------------------------
(***************************************************************************)
(* What is made of the ledger: films that replay a stretch of it, a policy *)
(* learned from it, and installs from the marketplace recorded in it. Each *)
(* part is a specification of its own, with its own initial state and      *)
(* next-state relation; a behaviour is a behaviour of one of them.         *)
(***************************************************************************)
EXTENDS Integers, SequencesExt, FiniteSets

-----------------------------------------------------------------------------
(***************************************************************************)
(* air film (cmd/meshmcp/airfilm.go): recording a stretch of the audit     *)
(* ledger into one file, and verifying or playing it.                      *)
(*                                                                         *)
(* The recorder reads the active ledger file while the gateway appends to  *)
(* it, so the last line may be half-written, and rotates it, so the file   *)
(* need not begin at the first record.  The film is written in place by    *)
(* os.WriteFile (truncate, then write): a recorder may die half-way, and   *)
(* two recorders given the same path interleave.  A record stands for its  *)
(* bytes; the seal (content_sha256) is the sequence of lines it hashes.    *)
(* Lines are taken to have one length, so a write covers whole lines.      *)
(***************************************************************************)
CONSTANTS
  Recorders,    \* film record command |-> [last, since, match, redact, out]
  Players,      \* film verify or play command |-> the film it reads
  Kinds,        \* kinds of record a filter can tell apart
  AnyKind,      \* the zero match
  maxFilmRecords,
  MaxRecords,   \* bound on the ledger
  MaxTime,      \* bound on record times
  MaxDeaths     \* bound on recorders dying half-way

VARIABLES
  seq,      \* number of records written in all
  ledger,   \* lines of the active file: records, possibly Torn at the end
  rec,      \* recorder |-> [pc, lines, film]
  films,    \* path |-> lines of the film file
  play,     \* player |-> [pc, film]
  sealed,   \* history: every film a recorder has put together
  deaths

filmVars == <<seq, ledger, rec, films, play, sealed, deaths>>

Torn == [seq |-> 0, prev |-> 0, time |-> 0, kind |-> "torn", redacted |-> FALSE]
NoFilm == <<>>
Paths == {Recorders[r].out : r \in DOMAIN Recorders}

FilmInit ==
  /\ seq = 0 /\ ledger = <<>>
  /\ rec = [r \in DOMAIN Recorders |-> [pc |-> "start", lines |-> <<>>, film |-> NoFilm]]
  /\ films = [p \in Paths |-> NoFilm]
  /\ play = [p \in DOMAIN Players |-> [pc |-> "start", film |-> NoFilm]]
  /\ sealed = {} /\ deaths = 0


(* The gateway starts a line, completes it, and rotates its ledger         *)
(* (policy/audit.go, auditrotate.go; in full in AuditTrail).               *)
AppendHalf ==
  /\ seq < MaxRecords /\ (ledger # <<>> => Last(ledger) # Torn)
  /\ ledger' = Append(ledger, Torn)
  /\ UNCHANGED <<seq, rec, films, play, sealed, deaths>>

AppendRest ==
  /\ ledger # <<>> /\ Last(ledger) = Torn
  /\ \E k \in Kinds, t \in 0..MaxTime :
       /\ \A i \in DOMAIN ledger : ledger[i].time <= t
       /\ ledger' = [ledger EXCEPT ![Len(ledger)] =
                       [seq |-> seq + 1, prev |-> seq, time |-> t, kind |-> k, redacted |-> FALSE]]
  /\ seq' = seq + 1
  /\ UNCHANGED <<rec, films, play, sealed, deaths>>

Rotate ==
  /\ ledger # <<>> /\ Last(ledger) # Torn
  /\ ledger' = <<>>
  /\ UNCHANGED <<seq, rec, films, play, sealed, deaths>>

-----------------------------------------------------------------------------
IsRecord(line) == line # Torn

(* readAllRecords: every line that is valid JSON.                          *)
readAllRecords == SelectSeq(ledger, IsRecord)

(* tailAuditRecords: the last n of them.                                   *)
tailAuditRecords(n) == LET all == SelectSeq(ledger, IsRecord)
                       IN IF Len(all) > n THEN SubSeq(all, Len(all) - n + 1, Len(all)) ELSE all

Read(r) ==
  /\ rec[r].pc = "start"
  /\ rec' = [rec EXCEPT ![r] = [@ EXCEPT !.pc = "cut",
               !.lines = IF Recorders[r].last > 0 THEN tailAuditRecords(Recorders[r].last) ELSE readAllRecords]]
  /\ UNCHANGED <<seq, ledger, films, play, sealed, deaths>>

(* newestRecordTime: --since counts back from the newest record.           *)
newestRecordTime(lines) == LET times == {lines[i].time : i \in DOMAIN lines}
                           IN CHOOSE t \in times : \A u \in times : u <= t

(* redactLine: the record without its identity fields, hash kept.          *)
redactLine(line) == [line EXCEPT !.redacted = TRUE]

(* matchRecord against the filters, glob by glob.                          *)
matchRecord(m, line) == m = AnyKind \/ line.kind = m

(* The capture: the lines that match and are recent enough, redacted.      *)
Kept(o, lines) ==
  LET recent(line) == o.since > 0 => line.time >= newestRecordTime(lines) - o.since
      wanted(line) == matchRecord(o.match, line) /\ recent(line)
      kept == SelectSeq(lines, wanted)
  IN [i \in DOMAIN kept |-> IF o.redact THEN redactLine(kept[i]) ELSE kept[i]]

(* A film of less than all that was read.                                  *)
windowed(o) == o.last > 0 \/ o.since > 0 \/ o.match # AnyKind

(* The manifest's claim to be the whole ledger from its first record.      *)
fullChain(o, kept) == ~windowed(o) /\ ~o.redact /\ kept[1].seq = 1

Manifest(o, kept) == [records |-> Len(kept), sha |-> kept, full |-> fullChain(o, kept), redacted |-> o.redact]

(* filmRecord: nothing kept, or too much, is an error.                     *)
filmRecord(r) ==
  /\ rec[r].pc = "cut"
  /\ LET o == Recorders[r]
         kept == Kept(o, rec[r].lines)
     IN IF kept = <<>> \/ Len(kept) > maxFilmRecords
        THEN rec' = [rec EXCEPT ![r].pc = "failed"] /\ sealed' = sealed
        ELSE LET film == <<Manifest(o, kept)>> \o kept
             IN /\ rec' = [rec EXCEPT ![r] = [@ EXCEPT !.pc = "truncate", !.film = film]]
                /\ sealed' = sealed \cup {film}
  /\ UNCHANGED <<seq, ledger, films, play, deaths>>

(* writeFilm: the file is truncated ...                                    *)
FilmTruncate(r) ==
  /\ rec[r].pc = "truncate"
  /\ rec' = [rec EXCEPT ![r].pc = "write"]
  /\ films' = [films EXCEPT ![Recorders[r].out] = NoFilm]
  /\ UNCHANGED <<seq, ledger, play, sealed, deaths>>

Over(old, new) == new \o SubSeq(old, Len(new) + 1, Len(old))

(* ... and written from its beginning.                                     *)
writeFilm(r) ==
  /\ rec[r].pc = "write"
  /\ rec' = [rec EXCEPT ![r].pc = "done"]
  /\ films' = [films EXCEPT ![Recorders[r].out] = Over(@, rec[r].film)]
  /\ UNCHANGED <<seq, ledger, play, sealed, deaths>>

(* The recorder dies after some of the lines.                              *)
FilmDie(r) ==
  /\ rec[r].pc = "write" /\ deaths < MaxDeaths
  /\ \E n \in 0..(Len(rec[r].film) - 1) :
       films' = [films EXCEPT ![Recorders[r].out] = Over(@, SubSeq(rec[r].film, 1, n))]
  /\ rec' = [rec EXCEPT ![r].pc = "dead"]
  /\ deaths' = deaths + 1
  /\ UNCHANGED <<seq, ledger, play, sealed>>

-----------------------------------------------------------------------------
(* VerifyChain over a film's lines: consecutive from one, each linked to   *)
(* the one before, none altered.                                           *)
VerifyChain(lines) ==
  \A i \in DOMAIN lines : lines[i].seq = i /\ lines[i].prev = i - 1 /\ ~lines[i].redacted

(* checkFilmIntegrity: the seal, and for a full-chain film the chain.      *)
checkFilmIntegrity(man, lines) ==
  lines = man.sha /\ (man.full /\ ~man.redacted => VerifyChain(lines))

(* readFilm: the first line must be a manifest.                            *)
readFilm(p) ==
  /\ play[p].pc = "start"
  /\ LET film == films[Players[p]]
     IN play' = [play EXCEPT ![p] = IF film = <<>> \/ "sha" \notin DOMAIN film[1]
                                    THEN [@ EXCEPT !.pc = "not a film"]
                                    ELSE [pc |-> "check", film |-> film]]
  /\ UNCHANGED <<seq, ledger, rec, films, sealed, deaths>>

(* filmVerify, and filmPlay before its first row.                          *)
filmVerify(p) ==
  /\ play[p].pc = "check"
  /\ play' = [play EXCEPT ![p].pc =
                IF checkFilmIntegrity(Head(play[p].film), Tail(play[p].film)) THEN "intact" ELSE "broken"]
  /\ UNCHANGED <<seq, ledger, rec, films, sealed, deaths>>

FilmNext ==
  \/ AppendHalf \/ AppendRest \/ Rotate
  \/ \E r \in DOMAIN Recorders : Read(r) \/ filmRecord(r) \/ FilmTruncate(r) \/ writeFilm(r) \/ FilmDie(r)
  \/ \E p \in DOMAIN Players : readFilm(p) \/ filmVerify(p)

FilmSpec == FilmInit /\ [][FilmNext]_filmVars

-----------------------------------------------------------------------------
(* What a verifier calls intact is one capture, complete and unmixed:      *)
(* neither the beginning of a film whose recorder died, nor the lines of   *)
(* one recorder under the manifest of another (checkFilmIntegrity).        *)
IntactIsWhole ==
  \A p \in DOMAIN Players : play[p].pc = "intact" => play[p].film \in sealed

(* "a full-ledger film verifies end-to-end via policy.VerifyChain"         *)
(* (airfilm.go:40-44): a film that claims the full chain passes its own    *)
(* verification, whatever was rotated away or half-written while it was    *)
(* recorded.                                                               *)
FullVerifies ==
  \A film \in sealed : Head(film).full => VerifyChain(Tail(film))

(* A film no recorder mixed with another's is never reported broken.       *)
WholeIsIntact ==
  \A p \in DOMAIN Players : play[p].pc = "broken" => play[p].film \notin sealed

FilmsHold == IntactIsWhole /\ FullVerifies /\ WholeIsIntact

-----------------------------------------------------------------------------
(***************************************************************************)
(* The read side of the firewall (insight/, cmd/meshmcp/insight.go): a     *)
(* gateway enforces a policy and writes one record per decision, and from  *)
(* that ledger the tools profile the callers, recommend a policy, replay   *)
(* the ledger through a candidate policy, and compare new traffic with a   *)
(* baseline.                                                               *)
(*                                                                         *)
(* The gateway is the part with state: the clock, the token buckets, the   *)
(* labels of each session, the standing approvals and the ledger.  The     *)
(* tools are operators of the ledger; what Profile accumulates record by   *)
(* record is written as the set or the count it ends up with.              *)
(*                                                                         *)
(* Time is in seconds from the midnight before a Sunday, and so has a      *)
(* minute, an hour and a weekday as in the code; Times names the instants  *)
(* at which something may happen.  A bucket holds sixtieths of a token, so *)
(* that a limit of Max per minute refills Max of them a second.            *)
(***************************************************************************)
CONSTANTS
    Sessions,            \* session -> its caller [peer, key]
    Tools,               \* the tools callers ask for
    PrefixOf,            \* tool -> its name up to the first underscore, or ""
    Egress,              \* the tools whose name looks like egress
    InEffect,            \* the policy the gateway enforces: a sequence of rules
    Times,               \* the instants of this model
    RateSafety,          \* RecommendOptions.RateSafety
    MinCallsForWindow,   \* RecommendOptions.MinCallsForWindow
    Generalize,          \* --generalize
    RateFactor,          \* DetectOptions.RateFactor
    DenyWindow          \* DetectOptions.Window; the threshold is its default, one half

VARIABLES
    now,        \* the clock
    buckets,    \* <<rule, key>> -> [tokens, last]: the engine's token buckets
    labels,     \* session -> the data-flow labels it carries
    approved,   \* <<peer, tool>>: the standing approvals
    insightLedger      \* the records, in the order they were written

insightVars == <<now, buckets, labels, approved, insightLedger>>

NoTool == ""           \* a record of a method call has no tool
ById(s) == Sessions[s]

minuteOf(t) == t \div 60
Hour(t) == (t \div 3600) % 24
Weekday(t) == (t \div 86400) % 7

(***************************************************************************)
(* The engine.  A rule is [peers, tools, allow, block, emits, rate, when,  *)
(* cosign]; a selector is [sel, name]; rate 0 is no limit; a window is     *)
(* [days, hours], where {} is every day and <<>> all day.                  *)
(***************************************************************************)
Always == [days |-> {}, hours |-> <<>>]

active(w, t) ==
    /\ w.days = {} \/ Weekday(t) \in w.days
    /\ \/ w.hours = <<>>
       \/ /\ (t \div 60) % 1440 >= w.hours[1]
          /\ (t \div 60) % 1440 < w.hours[2]

matchesPeer(r, id) ==
    \E p \in r.peers : \/ p.sel = "key" /\ p.name = id.key
                       \/ p.sel = "peer" /\ p.name = id.peer
                       \/ p.sel = "all"

matchesTool(r, tool) ==
    \E p \in r.tools : \/ p.sel = "tool" /\ p.name = tool
                       \/ p.sel = "prefix" /\ p.name = PrefixOf[tool]

(* The bucket of a rule and a key after the time since it was last used:   *)
(* full when it is new.                                                    *)
Refilled(b, i, key, max, t) ==
    IF <<i, key>> \in DOMAIN b
    THEN LET old == b[<<i, key>>]
             sum == old.tokens + (t - old.last) * max
         IN IF sum > 60 * max THEN 60 * max ELSE sum
    ELSE 60 * max

Put(b, k, v) == [x \in DOMAIN b \cup {k} |-> IF x = k THEN v ELSE b[x]]

(* The rules that speak about a call now; the first of them decides.       *)
Matching(pol, id, tool, t) ==
    {i \in DOMAIN pol : /\ matchesPeer(pol[i], id)
                        /\ matchesTool(pol[i], tool)
                        /\ active(pol[i].when, t)}

Verdict(outcome, i, emits, b) == [outcome |-> outcome, rule |-> i, emits |-> emits, buckets |-> b]

Drawn(b, k, r, left, t) ==
    IF r.rate = 0 THEN b
    ELSE Put(b, k, [tokens |-> IF left >= 60 THEN left - 60 ELSE left, last |-> t])

(* What rule i says, with what is left in its bucket before and after.     *)
ByRule(i, r, left, b, after, waiting, carried) ==
    IF ~r.allow \/ r.block \cap carried # {} THEN Verdict("deny", i, {}, b)
    ELSE IF r.rate # 0 /\ left < 60 THEN Verdict("deny", i, {}, after)
    ELSE IF r.cosign /\ waiting THEN Verdict("cosign", i, {}, after)
    ELSE Verdict("allow", i, r.emits, after)

FirstRule(pol, b, id, tool, carried, ok, t, i) ==
    LET left == Refilled(b, i, id.key, pol[i].rate, t)
    IN  ByRule(i, pol[i], left, b, Drawn(b, <<i, id.key>>, pol[i], left, t),
               <<id.peer, tool>> \notin ok, carried)

DecideToolCall(pol, b, id, tool, carried, ok, t) ==
    LET ms == Matching(pol, id, tool, t)
    IN  IF ms = {} THEN Verdict("deny", 0, {}, b)
        ELSE FirstRule(pol, b, id, tool, carried, ok, t, CHOOSE j \in ms : \A k \in ms : j <= k)

(***************************************************************************)
(* Profile: what a ledger says of each caller.                             *)
(***************************************************************************)
Of(L, id) == {n \in DOMAIN L : L[n].id = id}
Identities(L) == {L[n].id : n \in DOMAIN L}
CallsOf(L, id, tool) == {n \in Of(L, id) : L[n].tool = tool}

ToolsOf(L, id) == {L[n].tool : n \in Of(L, id)} \ {NoTool}

Allowed(L, id, tool) == {n \in CallsOf(L, id, tool) : L[n].decision = "allow"}

(* The labels a caller produced, by the rule each allowed record names.    *)
EmittedLabels(L, id) ==
    UNION {InEffect[L[n].rule].emits :
               n \in {k \in Of(L, id) : L[k].decision = "allow" /\ L[k].tool # NoTool /\ L[k].rule > 0}}

(* counts is a function from active minutes to the calls in each.  The     *)
(* rank-th smallest of them, counting from 0.                              *)
Ranked(counts, rank) ==
    CHOOSE v \in {counts[m] : m \in DOMAIN counts} :
       /\ Cardinality({m \in DOMAIN counts : counts[m] < v}) <= rank
       /\ Cardinality({m \in DOMAIN counts : counts[m] <= v}) > rank

(* The rank is rounded to the nearest.                                     *)
percentile(counts, pct) ==
    LET n == Cardinality(DOMAIN counts)
    IN IF n = 0 THEN 0 ELSE Ranked(counts, (pct * (n - 1) + 50) \div 100)

PerMinP99(L, id, tool) ==
    LET ns == CallsOf(L, id, tool)
    IN percentile([m \in {minuteOf(L[n].time) : n \in ns} |->
                      Cardinality({n \in ns : minuteOf(L[n].time) = m})], 99)

Hours(L, id) == {Hour(L[n].time) : n \in Of(L, id)}
Days(L, id) == {Weekday(L[n].time) : n \in Of(L, id)}

MaxOf(S) == CHOOSE x \in S : \A y \in S : y <= x
MinOf(S) == CHOOSE x \in S : \A y \in S : x <= y

(* The hours a caller keeps to, <<>> when it keeps to none: it is seen at  *)
(* the weekend, or around the clock.                                       *)
activeHourBounds(L, id) ==
    LET hs == Hours(L, id)
    IN IF Days(L, id) \cap {0, 6} # {} \/ hs = {} \/ {0, 23} \subseteq hs
       THEN <<>>
       ELSE <<MinOf(hs), MaxOf(hs)>>

(***************************************************************************)
(* Recommend.                                                              *)
(***************************************************************************)
selector(id) ==
    IF id.key # "" THEN [sel |-> "key", name |-> id.key]
    ELSE IF id.peer # "" THEN [sel |-> "peer", name |-> id.peer]
    ELSE [sel |-> "all", name |-> "*"]

(* (Mutated form: tools that were asked for count, not those allowed.) *)
GrantedAsked(L, id) == ToolsOf(L, id)

Granted(L, id) == {tool \in ToolsOf(L, id) : Allowed(L, id, tool) # {}}

(* Two granted tools or more that share a prefix become one pattern.       *)
generalize(tools) ==
    LET wide == {q \in {PrefixOf[t] : t \in tools} \ {""} :
                    Cardinality({t \in tools : PrefixOf[t] = q}) >= 2}
    IN {[sel |-> "prefix", name |-> q] : q \in wide}
       \cup {[sel |-> "tool", name |-> t] : t \in {u \in tools : PrefixOf[u] \notin wide}}

window(L, id) ==
    LET h == activeHourBounds(L, id)
    IN IF Cardinality(Of(L, id)) < MinCallsForWindow \/ h = <<>> THEN Always
       ELSE [days |-> Days(L, id), hours |-> <<60 * h[1], 60 * (h[2] + 1)>>]

(* One rule for each caller that was allowed something.                    *)
RuleFor(L, id) ==
    LET granted == Granted(L, id)
    IN [peers |-> {selector(id)},
        tools |-> IF Generalize THEN generalize(granted)
                  ELSE {[sel |-> "tool", name |-> t] : t \in granted},
        allow |-> TRUE, block |-> {}, emits |-> {},
        rate  |-> RateSafety * MaxOf({PerMinP99(L, id, t) : t \in granted}),
        when  |-> window(L, id), cosign |-> FALSE]

(* The rules in the order of the callers' keys, here any one order.        *)
Recommend(L) ==
    LET ids == {id \in Identities(L) : Granted(L, id) # {}}
        f   == CHOOSE g \in [1 .. Cardinality(ids) -> ids] : \A i, j \in DOMAIN g : i # j => g[i] # g[j]
    IN [i \in DOMAIN f |-> RuleFor(L, f[i])]

(***************************************************************************)
(* Simulate: the ledger replayed through a fresh engine, labels kept per   *)
(* caller, no approvals.                                                   *)
(***************************************************************************)
AfterLabels(ls, id, v) ==
    IF v.outcome = "allow" THEN [ls EXCEPT ![id] = @ \cup v.emits] ELSE ls

(* (Mutated form: labels are not carried from record to record.) *)
CarryNothing(ls, id, v) == ls

Carry(ls, id, v) == AfterLabels(ls, id, v)

Noted(st, r, v) ==
    [buckets |-> v.buckets, labels |-> Carry(st.labels, r.id, v), out |-> Append(st.out, v.outcome)]

Replayed(pol, st, r) ==
    Noted(st, r, IF r.tool = NoTool
                 THEN Verdict("allow", 0, {}, st.buckets)
                 ELSE DecideToolCall(pol, st.buckets, r.id, r.tool, st.labels[r.id], {}, r.time))

Compared(L, out) ==
    LET Changed(was, is) == {n \in DOMAIN L : L[n].decision = was /\ out[n] = is}
    IN [total       |-> Len(L),
        matched     |-> Cardinality({n \in DOMAIN L : out[n] = L[n].decision}),
        regressions |-> Changed("allow", "deny"),
        nowCosign   |-> Changed("allow", "cosign"),
        loosened    |-> Changed("deny", "allow")]

Simulate(L, pol) ==
    Compared(L, FoldLeft(LAMBDA acc, r : Replayed(pol, acc, r),
                         [buckets |-> <<>>, labels |-> [id \in Identities(L) |-> {}], out |-> <<>>],
                         L).out)

(* meshmcp insight simulate exits with an error on any regression.         *)
insightSimulate(L, pol) == IF Simulate(L, pol).regressions = {} THEN "ok" ELSE "regressions"

(***************************************************************************)
(* Detect: the records of N against the baseline L.                        *)
(***************************************************************************)
(* Half or more of a caller's last decisions were refusals.                *)
DenySpikes(N, n) ==
    LET mine == {k \in 1 .. n : N[k].id = N[n].id}
        last == {k \in mine : Cardinality({j \in mine : j > k}) < DenyWindow}
    IN /\ Cardinality(last) >= DenyWindow
       /\ 2 * Cardinality({k \in last : N[k].decision = "deny"}) >= DenyWindow

Spikes(L, N, n) ==
    LET r   == N[n]
        p99 == PerMinP99(L, r.id, r.tool)
    IN /\ p99 > 0
       /\ Cardinality({k \in 1 .. n : /\ N[k].id = r.id /\ N[k].tool = r.tool
                                      /\ minuteOf(N[k].time) = minuteOf(r.time)}) > RateFactor * p99

OffHours(L, r) ==
    LET h == activeHourBounds(L, r.id)
    IN h # <<>> /\ (Hour(r.time) < h[1] \/ Hour(r.time) > h[2])

(* Once per identity, tool or minute in the code, here every record at     *)
(* which the check says yes.                                               *)
Detect(L, N) ==
    {<<"deny-spike", n>> : n \in {k \in DOMAIN N : DenySpikes(N, k)}}
    \cup {<<"unknown-identity", n>> : n \in {k \in DOMAIN N : N[k].id \notin Identities(L)}}
    \cup UNION {(IF N[n].tool \notin ToolsOf(L, N[n].id) THEN {<<"new-tool", n>>} ELSE {})
                \cup (IF Spikes(L, N, n) THEN {<<"rate-spike", n>>} ELSE {})
                \cup (IF OffHours(L, N[n]) THEN {<<"off-hours", n>>} ELSE {})
                \cup (IF /\ EmittedLabels(L, N[n].id) # {} /\ N[n].tool \in Egress
                         /\ N[n].decision = "allow"
                      THEN {<<"label-egress", n>>} ELSE {}) :
                   n \in {k \in DOMAIN N : N[k].id \in Identities(L) /\ N[k].tool # NoTool}}

(***************************************************************************)
(* The gateway.                                                            *)
(***************************************************************************)
InsightTick ==
    /\ now' \in {t \in Times : t > now}
    /\ UNCHANGED <<buckets, labels, approved, insightLedger>>

Rec(s, tool, v) ==
    [id |-> ById(s), tool |-> tool, time |-> now, decision |-> v.outcome, rule |-> v.rule]

Call(s, tool) ==
    LET v == DecideToolCall(InEffect, buckets, ById(s), tool, labels[s], approved, now)
    IN /\ Len(insightLedger) < MaxRecords
       /\ buckets' = v.buckets
       /\ labels' = AfterLabels(labels, s, v)
       /\ insightLedger' = Append(insightLedger, Rec(s, tool, v))
       /\ UNCHANGED <<now, approved>>

(* A method is allowed when no rule names methods.                         *)
Method(s) ==
    /\ Len(insightLedger) < MaxRecords
    /\ insightLedger' = Append(insightLedger, Rec(s, NoTool, Verdict("allow", 0, {}, buckets)))
    /\ UNCHANGED <<now, buckets, labels, approved>>

Approve(s, tool) ==
    /\ \E n \in DOMAIN insightLedger : insightLedger[n].id = ById(s) /\ insightLedger[n].tool = tool /\ insightLedger[n].decision = "cosign"
    /\ approved' = approved \cup {<<ById(s).peer, tool>>}
    /\ UNCHANGED <<now, buckets, labels, insightLedger>>

InsightInit ==
    /\ now = MinOf(Times)
    /\ buckets = <<>>
    /\ labels = [s \in DOMAIN Sessions |-> {}]
    /\ approved = {}
    /\ insightLedger = <<>>

InsightNext ==
    \/ InsightTick
    \/ \E s \in DOMAIN Sessions :
          \/ Method(s)
          \/ \E tool \in Tools : Call(s, tool) \/ Approve(s, tool)

InsightSpec == InsightInit /\ [][InsightNext]_insightVars

(***************************************************************************)
(* Properties.                                                             *)
(***************************************************************************)
(* A policy learned from behaviour does not deny that behaviour: replayed  *)
(* through the policy recommended from it, a ledger shows no regression.   *)
ZeroRegressions ==
    LET pol == Recommend(insightLedger)
    IN insightSimulate(insightLedger, pol) = "ok"

(* Least privilege: a caller is not granted a tool it was only ever        *)
(* refused, at any time.                                                   *)
DeniedStaysDenied ==
    ~Generalize =>
        LET pol == Recommend(insightLedger) IN
        \A id \in Identities(insightLedger) : \A tool \in ToolsOf(insightLedger, id) :
            Allowed(insightLedger, id, tool) = {} =>
                \A t \in Times : DecideToolCall(pol, <<>>, id, tool, {}, {}, t).outcome = "deny"

(* Replaying a ledger through the policy that produced it reproduces every *)
(* verdict, but for the approvals the replay does not have: buckets refill *)
(* and labels accumulate as they did.                                      *)
ReplayFaithful ==
    LET s == Simulate(insightLedger, InEffect)
    IN /\ s.regressions = {} /\ s.loosened = {}
       /\ \A n \in s.nowCosign : <<insightLedger[n].id.peer, insightLedger[n].tool>> \in approved

(* Traffic is no deviation from the baseline learned from it.  (Refusals   *)
(* and labelled egress are reported whatever the baseline holds.)          *)
NormalIsQuiet == \A a \in Detect(insightLedger, insightLedger) : a[1] \in {"deny-spike", "label-egress"}

InsightHolds == ZeroRegressions /\ DeniedStaysDenied /\ ReplayFaithful /\ NormalIsQuiet

-----------------------------------------------------------------------------
(***************************************************************************)
(* The plugin marketplace (policy/manifest.go, cmd/meshmcp/market.go and   *)
(* marketcmd.go): publishers hash a bundle file, sign a manifest and write *)
(* it into a catalogue directory; consumers read a manifest, verify it     *)
(* against the keys they pin and against the bundle's bytes, and append a  *)
(* metered grant to an audit ledger.                                       *)
(*                                                                         *)
(* Every command is a process of its own.  The catalogue, the bundles and  *)
(* the ledger are files they share without a lock: os.WriteFile truncates  *)
(* first and writes afterwards, a publisher may die between the two, and   *)
(* somebody may edit a bundle while a command runs.  A content stands for  *)
(* its SHA-256; a signature is the key it was made with.                   *)
(***************************************************************************)
CONSTANTS
  Publish,      \* publishing command |-> [key, name, bundle, kind, cost, ttl]
  Install,      \* installing command |-> [pubkeys, file, bundle]
  Verify,       \* verifying command |-> [pubkeys, file, bundle]
  File,         \* sanitizeName: bundle name |-> manifest file of the catalogue
  BundleKinds,        \* the kinds validManifestKind admits
  Contents,     \* contents a bundle file can have
  MaxEdits     \* bound on edits of bundle files

VARIABLES
  bundle,   \* bundle path |-> content of the file
  catalog,  \* manifest file |-> set holding its token, {} while absent or empty
  issued,   \* every manifest IssueManifest has signed
  cmd,      \* command |-> [pc, token, content]: where it is, what it has read
  marketLedger,   \* the grant ledger: records [seq, prev, hash, id, cost, content]
  charged,  \* history: what was true when each grant's checks were made
  listed,   \* history: the last rows marketList printed
  edits

marketVars == <<now, bundle, catalog, issued, cmd, marketLedger, charged, listed, edits, deaths>>

Commands == DOMAIN Publish \cup DOMAIN Install \cup DOMAIN Verify
Bundles == {Publish[c].bundle : c \in DOMAIN Publish} \cup {Install[c].bundle : c \in DOMAIN Install}
Files == {File[n] : n \in DOMAIN File}

Fresh == [pc |-> "start", token |-> {}, content |-> {}]

MarketInit ==
  /\ now = 0
  /\ bundle \in [Bundles -> Contents]
  /\ catalog = [f \in Files |-> {}]
  /\ issued = {}
  /\ cmd = [c \in Commands |-> Fresh]
  /\ marketLedger = <<>> /\ charged = <<>> /\ listed = {}
  /\ edits = 0 /\ deaths = 0

Goto(c, where) == cmd' = [cmd EXCEPT ![c].pc = where]

(* The clock moves; somebody edits a bundle file.                          *)
MarketTick ==
  /\ now < MaxTime
  /\ now' = now + 1
  /\ UNCHANGED <<bundle, catalog, issued, cmd, marketLedger, charged, listed, edits, deaths>>

Edit(b) ==
  /\ edits < MaxEdits
  /\ \E x \in Contents \ {bundle[b]} : bundle' = [bundle EXCEPT ![b] = x]
  /\ edits' = edits + 1
  /\ UNCHANGED <<now, catalog, issued, cmd, marketLedger, charged, listed, deaths>>

-----------------------------------------------------------------------------
(* marketPublish up to the signature: the bundle is read and hashed.       *)
marketPublish(c) ==
  /\ c \in DOMAIN Publish /\ cmd[c].pc = "start"
  /\ cmd' = [cmd EXCEPT ![c] = [@ EXCEPT !.pc = "issue", !.content = {bundle[Publish[c].bundle]}]]
  /\ UNCHANGED <<now, bundle, catalog, issued, marketLedger, charged, listed, edits, deaths>>

(* The expiry IssueManifest signs; 0 for a manifest that never expires.    *)
ExpiresAt(p) == IF p.ttl > 0 THEN now + p.ttl ELSE 0

(* IssueManifest: the checks on kind and cost, then the signature.         *)
IssueManifest(c) ==
  /\ c \in DOMAIN Publish /\ cmd[c].pc = "issue"
  /\ LET p == Publish[c]
         m == [id |-> c, name |-> p.name, kind |-> p.kind, content |-> CHOOSE x \in cmd[c].content : TRUE,
               cost |-> p.cost, exp |-> ExpiresAt(p), key |-> p.key]
     IN IF p.kind \in BundleKinds /\ p.cost >= 0
        THEN /\ issued' = issued \cup {m}
             /\ cmd' = [cmd EXCEPT ![c] = [@ EXCEPT !.pc = "truncate", !.token = {m}]]
        ELSE issued' = issued /\ Goto(c, "refused")
  /\ UNCHANGED <<now, bundle, catalog, marketLedger, charged, listed, edits, deaths>>

(* manifestStore.Publish: os.WriteFile truncates the file of the name ...  *)
MarketTruncate(c) ==
  /\ c \in DOMAIN Publish /\ cmd[c].pc = "truncate"
  /\ catalog' = [catalog EXCEPT ![File[Publish[c].name]] = {}]
  /\ Goto(c, "write")
  /\ UNCHANGED <<now, bundle, issued, marketLedger, charged, listed, edits, deaths>>

(* ... and writes the token.                                               *)
Write(c) ==
  /\ c \in DOMAIN Publish /\ cmd[c].pc = "write"
  /\ catalog' = [catalog EXCEPT ![File[Publish[c].name]] = cmd[c].token]
  /\ Goto(c, "done")
  /\ UNCHANGED <<now, bundle, issued, marketLedger, charged, listed, edits, deaths>>

(* The publisher dies between the two; the catalogue keeps an empty file.  *)
MarketDie(c) ==
  /\ cmd[c].pc = "write" /\ deaths < MaxDeaths
  /\ deaths' = deaths + 1
  /\ Goto(c, "dead")
  /\ UNCHANGED <<now, bundle, catalog, issued, marketLedger, charged, listed, edits>>

(* marketList: the catalogue's tokens, signatures unchecked; an empty or   *)
(* unreadable file is skipped.                                             *)
List ==
  /\ listed' = UNION {catalog[f] : f \in Files}
  /\ listed' # listed
  /\ UNCHANGED <<now, bundle, catalog, issued, cmd, marketLedger, charged, edits, deaths>>

-----------------------------------------------------------------------------
Wants(c) == IF c \in DOMAIN Install THEN Install[c] ELSE Verify[c]

(* readToken: what the manifest file holds at this moment.                 *)
readToken(c) ==
  /\ c \in DOMAIN Install \cup DOMAIN Verify /\ cmd[c].pc = "start"
  /\ cmd' = [cmd EXCEPT ![c] = [@ EXCEPT !.pc = "verify", !.token = catalog[Wants(c).file]]]
  /\ UNCHANGED <<now, bundle, catalog, issued, marketLedger, charged, listed, edits, deaths>>

(* ManifestVerifier.Verify: a pinned key, its signature, an admissible     *)
(* kind, an expiry not yet reached.                                        *)
Admissible(m, keys) == m.key \in keys /\ m \in issued /\ m.kind \in BundleKinds /\ (m.exp = 0 \/ now < m.exp)

VerifyManifest(c) ==
  /\ c \in DOMAIN Install \cup DOMAIN Verify /\ cmd[c].pc = "verify"
  /\ Goto(c, IF \E m \in cmd[c].token : Admissible(m, Wants(c).pubkeys) THEN "content" ELSE "refused")
  /\ charged' = IF \E m \in cmd[c].token : Admissible(m, Wants(c).pubkeys)
                THEN Append(charged, [by |-> c, at |-> now])
                ELSE charged
  /\ UNCHANGED <<now, bundle, catalog, issued, marketLedger, listed, edits, deaths>>

(* The bundle is read and compared with the hash the manifest pins.        *)
VerifyContent(m, x) == m.content = x

ReadBundle(c) ==
  /\ c \in DOMAIN Install \cup DOMAIN Verify /\ cmd[c].pc = "content"
  /\ LET x == bundle[Wants(c).bundle]
         ok == \A m \in cmd[c].token : VerifyContent(m, x)
     IN cmd' = [cmd EXCEPT ![c] = [@ EXCEPT !.content = {x},
                                   !.pc = IF ~ok THEN "refused" ELSE IF c \in DOMAIN Install THEN "record" ELSE "ok"]]
  /\ UNCHANGED <<now, bundle, catalog, issued, marketLedger, charged, listed, edits, deaths>>

(* The link of the grant: the ledger is opened by a new AuditLog, which    *)
(* nobody seeds from the file, so the record is the first of a chain.      *)
Link == [seq |-> 1, prev |-> 0]

(* The manifest the grant is for.                                          *)
Grant(c) == cmd[c].token

(* recordInstall: one record appended, then the outcome is printed.        *)
recordInstall(c) ==
  /\ c \in DOMAIN Install /\ cmd[c].pc = "record"
  /\ marketLedger' = marketLedger \o SetToSeq({[seq |-> Link.seq, prev |-> Link.prev, hash |-> Len(marketLedger) + 1,
                                    by |-> c, id |-> m.id, cost |-> m.cost, content |-> m.content] : m \in Grant(c)})
  /\ Goto(c, "installed")
  /\ UNCHANGED <<now, bundle, catalog, issued, charged, listed, edits, deaths>>

MarketNext ==
  \/ MarketTick \/ List
  \/ \E b \in Bundles : Edit(b)
  \/ \E c \in Commands :
       \/ marketPublish(c) \/ IssueManifest(c) \/ MarketTruncate(c) \/ Write(c) \/ MarketDie(c)
       \/ readToken(c) \/ VerifyManifest(c) \/ ReadBundle(c) \/ recordInstall(c)

MarketSpec == MarketInit /\ [][MarketNext]_marketVars

-----------------------------------------------------------------------------
(* Every install that reports success has exactly one grant, for the       *)
(* manifest whose content is the content it checked, at the cost its       *)
(* publisher signed, under a key the consumer pins, and not expired when   *)
(* the manifest was verified - whatever was republished, edited or left    *)
(* half-written meanwhile (marketInstall, recordInstall).                  *)
InstallsTrue ==
  /\ \A c \in DOMAIN Install :
       Cardinality({i \in DOMAIN marketLedger : marketLedger[i].by = c}) = (IF cmd[c].pc = "installed" THEN 1 ELSE 0)
  /\ \A i \in DOMAIN marketLedger :
       LET g == marketLedger[i] IN
       \E m \in issued :
         /\ m.id = g.id /\ m.cost = g.cost /\ m.key \in Install[g.by].pubkeys
         /\ cmd[g.by].content = {m.content}
         /\ \E j \in DOMAIN charged :
              charged[j].by = g.by /\ (m.exp = 0 \/ charged[j].at < m.exp)

(* A command that verified a bundle had the very content before it that an *)
(* authority it pins has signed (marketVerify).                            *)
VerifiesTrue ==
  \A c \in DOMAIN Verify : cmd[c].pc = "ok" =>
     \E m \in issued : m.key \in Verify[c].pubkeys /\ cmd[c].content = {m.content}

(* The catalogue never advertises what no publisher has signed: a row of   *)
(* the list is a whole manifest (List skips what Publish left half-done).  *)
ListedWhole == listed \subseteq issued

MarketHolds == InstallsTrue /\ VerifiesTrue /\ ListedWhole

=============================================================================
