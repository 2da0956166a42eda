# A TLA+ model of pcapdigger

pcapdigger reads a packet capture once, folds every packet into tables of hosts and flows, decrypts
the TLS connections it has secrets for, runs detectors over the result and writes reports. Around
that, commands keep a configuration, GeoIP databases and a WHOIS cache in a home directory. This
directory holds TLA+ modules for the parts in which order, loss, repetition, failure and concurrent
runs matter, the TLC runs that check them, and proofs that TLAPS checks.

`PROJECT.json` is the index: components, runs, the source lines behind every definition (`map`), the
mutants that show each property can fail, the findings, the hazards and the theorems.

## 1. Inventory

Inside a run there is no concurrency: `analyze` opens the capture, calls `Builder.Add` for each packet in
file order, then `Result`, then the detectors, enrichment and report writers, in one goroutine. What makes
that part hard is its input (packets of many connections interleaved, captured out of order, twice or not
at all, starting in the middle of a conversation) and the maps Go ranges over in any order. Between runs
there is: several commands may be alive at once, and they share the files of `~/.config/pcapdigger`
without a lock, rewrite them in place and may be killed at any step.

| Component | State it keeps | Operations | Talks to | What makes it correct |
|---|---|---|---|---|
| `internal/flow/tlsreassembly.go` | per tracked flow: two buffers (`started`, `nextSeq`, `pending`, `pendingBytes`), `abandoned` | `maybeStartTLS`, `feedTLS`, `advanceTLS`, `consumeTLSPlaintext` | called by `Builder.Add`; calls `Session.Feed` | the session sees each side's stream in order, once, from a payload that begins with 0x16; memory is bounded |
| `internal/tlssession` | hellos, version, suite, transcript, key exchange, verdict, keys, per direction: phase, sequence counter, partial records | `Feed`, `processRecord`, `drainCleartextHandshake`, `tryResolve*`, `decrypt*` | fed by reassembly; reads `tlskeys.Store`; calls `tlscrypto` | right keys or none; a verdict is final; data surfaces without gaps; everything decryptable is decrypted |
| `internal/flow/builder.go`, `model.go` | `Hosts`, `Flows`, totals, events, `pendingNames`, `tlsConns` | `Add`, `Result` | fed by the reader; calls parsers and reassembly | the books agree; directions and servers are told apart; names are not lost |
| `internal/tlscrypto` | none | key derivation, record opening | called by the session | a record opens under its own key and counter and under nothing else, to what was sealed |
| `internal/proto` | none | parsing ClientHello, certificates, cleartext logins | called by the builder | what is shown was written, whole |
| `internal/security` | none | ten detectors, `Run`, `sortFindings` | read the finished tables | thresholds at their edges, order of findings |
| `internal/analyze`, `internal/report`, `internal/diagram` | none | aggregate, build, write | read tables and findings | totals agree, finding ids point where they should, the list of written files is true |
| `internal/enrich/whois` | one cache file per address | `Lookup` | network, files shared by runs | no stale or torn record is used |
| `internal/enrich/updatedb` | `.mmdb` files, `manifest.json` | `Update` | network, files shared by runs | files are whole, the manifest tells the truth |
| `internal/enrich/geoip` | open databases | `Open`, lookups, `Close` | files shared by runs | what is open does not change |
| `internal/config` | `config.yaml` | `Load`, `Save` | file shared by runs | no change is lost, and nothing is done that the settings forbid |
| `cmd/pcapdigger` | none | the commands | everything | the order of the pipeline, what a failure leaves behind |
| `internal/tlskeys`, `internal/pcapdata`, `internal/version` | files, read once | `Load`, read | `cmd` | |

The behaviours that are hard to test are the `hazards` of `PROJECT.json`, each at the line where it
bites, with the properties that watch it or the reason why none does.

## 2. Modules

The modules fall into four groups. `->` reads "is extended or instantiated by".

    the path of a TLS byte   OrderedStream -> TcpReassembly -> TlsPath <- RecordStream
                             TlsSession -> TlsHandshakes       RecordLayer -> TlsWire <- TlsParsers
    the tables               FlowTable
    the home directory       Files -> ConfigStore, UpdateDB, WhoisCache -> HomeDir
    one analysis             Detectors, Summary -> Report -> Analysis
    for TLC                  MCTcpReassembly -> MCTlsPath, MCTlsSession, MCTlsWire, MCFlowTable, MCHomeDir, MCAnalysis
    proofs                   DataLemmas -> TlsPathProofs, FlowTableProofs, AnalysisProofs
                             DataLemmas -> RecordLayerProofs -> TlsWireProofs
                             TlsHandshakes -> TlsSessionProofs       HomeDir -> HomeDirProofs

Operators called a mutant in their comment stand beside the definition they would replace; no
specification uses them.

### OrderedStream and TcpReassembly (`internal/flow/tlsreassembly.go`)

`OrderedStream` is the promise: for each side, `Hand` appends the next run of positions of its stream,
`GiveUp` ends everything. `TcpReassembly` is the code. A byte is named by its position in the sender's
stream; a payload is an interval `[off, len]`; the wire shows only `SeqNo(s, off)`, the position plus the
initial sequence number modulo `M = 2 * Half` (2^32 in the code). A captured segment is any member of
`Segments[s]`, any number of times, in any order.

| Model | Code |
|---|---|
| `tracked` | an entry for the flow in `Builder.tlsConns` |
| `started`, `nextSeq`, `pending`, `pendingBytes` | the fields of `reassemblyBuf`, per direction |
| `abandoned` | `tlsConnState.abandoned` |
| `work` | `seq` and `payload` of the loop in `advanceTLS`, or `Idle` |
| `out`, `seen` | history: fed positions, captured positions |
| `IgnorePacket` | `conn == nil \|\| conn.abandoned` |
| `Abandon`, `BufferAhead` | `diff > 0`, above and below the cap |
| `DropRetransmission`, `TakeInOrder` | `diff < 0` wholly old; overlapping or in order, `advanceTLS` is called |
| `Advance` | one round of the loop: `Feed`, move `nextSeq`, look in `pending` |

Each packet action begins with the `maybeStartTLS` that precedes it in `Add` (`tracked'`). No packet is
taken while `work` is set: the loop runs to its end inside one call, and the model shows its rounds only
so that the invariants are also checked in the middle of it.

### RecordStream and TlsPath (`tlssession/record.go`, `session.go`)

`RecordStream` is what `Feed` does with bytes while a direction is in the clear: it appends them to a
buffer (`Feed`), cuts records off its front (`CutRecord`, `extractRecords`) and appends the bodies of
handshake records to a second buffer, from which it cuts messages (`CutMessage`,
`extractHandshakeMessages`). What a header says is a constant function of the position it begins at, of
positions where no record begins too. `TlsPath` composes it with `TcpReassembly`: `AdvanceAndFeed` is one
round of `advanceTLS` with its `Feed`, and the cutting is done before the next payload is fed.

### TlsSession (`internal/tlssession`)

A connection is a constant script: for each direction its records, with the key and the sequence number
they were protected under, and how much of the other direction the sender had seen (`after`). The key
store says which secrets the user has. The actions are the branches of `processRecord` (`ChangeCipherSpec`,
`ClearHandshake`, `SkipRecord`, `Decrypt12`, the `Decrypt13` actions) and of `drainCleartextHandshake`
(`ClientHello`, `ServerHello`, `ClientKeyExchange`, `OtherMessage`), each with the `tryResolve` it calls.
Cryptography is what it guarantees: a record opens if and only if the keys are the connection's, the key
tried is the record's and the counter is the sender's (shown by `RecordLayer!OpensExactly`). A ciphertext
record that the code takes for a cleartext handshake parses as nothing, as some message or as a key
exchange, nondeterministically. A connection marked `causal` is processed in the order of a capture without
loss, a record after everything its sender had received; in the others the two directions interleave in any
way, which is what reassembly gaps make of them.

`TlsHandshakes` states what the theorems about causal connections assume of the two peers (`Proper`): which
message precedes which, that the records in the clear of both directions are one handshake flow, and when keys
change. It describes peers that follow TLS 1.2 and 1.3, not the code. `MCTlsSession` assumes the same of its
causal connections of these versions (`SupportedAreProper`), so each `tls_session` run evaluates the premise
of the theorems on the very scripts it checks.

### RecordLayer, TlsParsers and TlsWire (`tlscrypto`, `tlssession/parse.go`, `proto/tls.go`)

`RecordLayer` opens one record: the parts of the key block (`DirectionKeys`, `deriveTLS12`), nonces and
additional data, the explicit IV, MAC before or after encryption, padding, the type byte of TLS 1.3. The
primitives are symbols: a byte of a box, block or MAC is a place in that box, block or MAC, which opens
under the key, nonce and predecessor it was made with (`Decrypt`); anything else decrypts to junk, and a
junk byte that is looked at, the padding length, may have any value. The peer (`Sealed`, `PeerKeys`) is
written from the RFCs, the readers from the code. Its assumptions are what the table of suites has: four
kinds, and a MAC in every CBC suite; blocks and tags are not empty. A record may be lost
(the counter falls behind) or cut out of its bytes at the wrong places.

`TlsParsers` reads the fields of a handshake message from real bytes, with base-32 bytes and 2-byte randoms
in place of 256 and 32 so that all the numbers of the code (types 11, 16, 22, 43) keep their values.
`Items` is the loop that all lists share (extensions, names, certificates, messages in a record);
`parseClientHello`, `parseServerHello` and `clientKeyExchange` are the session's readers, and
`inspectTCPPayload` with `firstHandshakeBody` the flow table's. A read outside the message would be an
evaluation error and stop TLC. `MessagesAssumption` says what a peer can write: every list fits the length in
front of it, no extension occurs twice (RFC 8446, 4.2), and one that names versions has room for one.

`TlsWire` puts the two together: what `ReadHello` finds in the two hellos is what `UseEncryptThenMAC`
decides by when records follow.

### FlowTable (`internal/flow/builder.go`, `model.go`)

`AddIp` and `AddNonIp` are `Builder.Add` with and without its early return. A packet is a record of what
its layers say, plus the connection and the client it truly belongs to, which only the properties and the
history variables `sent` and `mixed` use. `tlsConns[k]` holds the connection whose payload started the
entry; what reassembly does with payloads is the business of the modules above. The string order of
`flowKey` is replaced by another total order of endpoints, since only totality matters.
`observeInterval` (see `Detectors!Regular`), MAC addresses and `guessAppProto` are left out. `Result` only
turns sets into slices, so it is the stuttering step with which a finished capture ends.

### Files, ConfigStore, UpdateDB, WhoisCache and HomeDir (`config`, `enrich`, `cmd`)

Every run of a command is a process `p` of `Runs`, and `pc[p]` its place. One step is one system call that
others can observe. `Files` holds what all share: `os.WriteFile` truncates in one step and writes at
offset 0 in the next, so that a second writer may come between (`Written`).

| Module | State | Code |
|---|---|---|
| `ConfigStore` | `configFile`; per run `cfg`, the settings it read, and `request` | `Load`, `Save`, `config init` (`InitConfig`, `KeepConfig`), `config set` (`SetConfig`, `RefuseSet`, then `TruncateConfig`, `WriteConfig`, `SaveFails`) |
| `UpdateDB` | `installed`, `temporary` (names to inodes), `inode` (contents in parts), `manifest`, `published`; per run `job` | `Update`: `Download`, `NoArchive`, `OpenTemporary`, `CopyPart`, `CopyFails`, `Install` (rename), the manifest in two steps; `geoip.Open` and `Close` |
| `WhoisCache` | `cache`, `now`; per run the addresses still to do, the answer in hand, the records returned | `Lookup`: `ReadCache`, `Query`, `QueryFails`, `TruncateCache`, `WriteCache`, `CacheFails` |
| `HomeDir` | all of it, `pc` | the commands from start to end (`Update`, `Analyze`, `RunWHOIS`, `SkipWHOIS`, ...); any of them may be killed at any step |

History variables say what had been asked for (`wanted`, `settled`) and where the code keeps no promise, as
narrowly as it allows:

| History | What it holds | What ends it |
|---|---|---|
| `lost` | the settings of which a change may be lost: those that saves alive at one time were asked for; all of them after a save cut short between truncation and write, or one that read the file in between | the setting is written again by a save with no other beside it |
| `caught` | the analyses that read the file empty, or `whois` while it was in `lost` | nothing, it is about one run |
| `overlapped` | the editions that two updates have copied at one time, through the temporary file they share (`updatedb.go:140`) | an update that ran alone installs the edition |
| `together` | the updates that were alive at the same time as another | nothing, it is about one run |

So `OpenedStaysSame` says that the file an analysis has open never becomes another, and that its contents never
change but in an overlapped edition, where the code does change them: one update renames the shared file, an
analysis opens it, the other goes on writing. `InstalledWhole` excepts the same editions, `SuccessMeansCurrent`
says that they are mended. An analysis opens one database after the other (`OpenDatabase`), so that an update
may install between the two.

### Detectors, Summary, Report and Analysis (`security`, `analyze`, `report`, `diagram`, `cmd`)

The first three are functions of the finished tables: a pass of a detector is the set of results that the
orders of Go's maps allow (`Passes`, `Orders`), `Tables` the set of tables an unstable sort may leave.
`SortFindings` is the insertion sort of `sortFindings`. `Report` holds `Build`, the three views and the
diagram's choice of hosts and flows. `Analysis` is `runAnalyze`, one action per call it makes, with every
failure: options, detectors, GeoIP, WHOIS and its budget, the report, the diagram, then format by format and
report by report the files. A file is `absent`, `old`, `torn` or `new`.

## 3. Runs

Passing runs:

| Run | Question | Bounds, and why they are enough |
|---|---|---|
| `tcp_recut` | Is what the session sees an ordered stream, whatever is captured? Also the refinement of `OrderedStream`. | Side A: 6 bytes cut in all ways into 1 to 3, side B: 3 bytes into 1 to 2; 16 sequence numbers, A's wrap after 3 bytes; the cap is 4, so that it is reached with two payloads pending. Overlap on either side, containment, chains of pending payloads and both caps occur. |
| `tcp_uncut` | Is everything captured and contiguous also delivered, and cut into the records and messages it consists of? | Payload boundaries that no retransmission moves: five payloads on A, two on B; two records, headers of two bytes split by payload boundaries, a message header split between two records, an empty record, and a start in the middle of a record. |
| `tls_session` | With packets in their true order, is everything decryptable decrypted, with the right keys, and does every handshake end in a verdict? What still holds when the directions are processed in any relative order? | Causal: TLS 1.2 with RSA, PSK and ECDHE, with and without extended master secret; resumption; an unknown suite; TLS 1.3 with and without retry. Not causal: the same, with renegotiation, KeyUpdate, 0-RTT, DHE_PSK and TLS 1.1. All 24 stores. |
| `tls_wire` | Do the readers find in the bytes of hellos, chains and key exchanges what was written, and does every kind of record open exactly when it should, to what was sent? | Up to two extensions in either order, with and without data, two kinds of name list, five chains; every place to cut a message or payload, every place to split a message over two records. One chain is as long as it takes for a length byte to be a message type: without its exception for split headers `PayloadsRead` fails on it. GCM, implicit nonce, TLS 1.3 and CBC with a MAC shorter and longer than a block, all paddings of up to two blocks; two records each way, so that the counter can be behind by one and by two. |
| `flow_table` | Do the tables agree with each other and with what was sent? | Six packets out of eleven: TCP with SYN, SYN-ACK, ClientHello and certificate, DNS, ICMP, loopback, ARP, malformed; timestamps run backwards. Lengths are powers of two, so totals determine the packets. |
| `home_dir` | What do the files hold, and what do runs take from them, when commands run together, fail and are killed? | Three runs, two at a time: enough for one to be killed and two others to meet what it left. Two editions of two parts, two versions, one address, three hours and a record that lives one or none. |
| `analysis` | Do detectors, summary, report, diagram and files agree with one another, whatever fails? | Six captures (scans, exfiltration and weak TLS, ARP and DNS, more hosts than fit, nothing readable, nothing) under five sets of options, two of them with an unknown format or report; thresholds of 2 or 3, so that both sides of each occur; a flow behind the last bucket of the timeline. |

`home_dir` is reduced in three ways. `View` leaves out what no step reads: the memory of a run that has
ended, inodes nobody refers to, and of an ended run how it ended. `SYMMETRY` exchanges runs, whose
identity the modules never look at; no liveness is checked there. The action constraint `Relevant` drops
clock ticks while no record exists, versions published before any update has begun, and behaviours in which
both updates and lookups happen: these two share no variable, and none of the properties is about both.

Each property of a passing run is broken by a mutant of the code listed in `PROJECT.json`.

Runs that end in a counterexample, each for one sentence of the repository that the code does not keep:

| Run | What the counterexample shows |
|---|---|
| `tcp_recut_complete` | a pending payload that the stream overtakes is never used (`tlsreassembly.go:101`) |
| `tcp_duplicate` | a payload captured twice ahead of the stream is counted twice, and the connection is given up early (`:80`) |
| `tls_psk_family` | DHE_PSK is declared resolved with wrong keys (`resolve.go:56`) |
| `flow_synack_first` | the server's handshake starts tracking in the client's place (`tlsreassembly.go:144`) |
| `flow_reused` | a second connection on the same endpoints is fed to the first one's state (`tlsreassembly.go:147`) |

`Complete` is checked both ways: it holds while payload boundaries do not move and fails when they do.

Only `Settles` needs fairness: `WF_vars(Next)` in `FairSpec`, because `analyze` reads the capture to its
end in one loop and every capture ends. The other modules state no liveness: a command may be killed at any
step, and nothing in the code waits for another run.

Deadlock is checked for the runs of the tables, of reassembly and of sessions: `TlsSession!Done` and
`FlowTable!Result` are the ends of their captures, and a segment may always be captured again. It is not
checked in `home_dir`, `analysis` and `tls_wire`, where commands, one analysis, and the reading of a message
or the last record do end.

### Seen while modelling, covered by no run

- Reassembly and tables: a flow whose first payload is not 0x16 is still tracked from a later one that is
  (`tlsreassembly.go:144`, against the comment at `:46`); a pending payload the stream has overtaken is taken
  for new data one turn of 2^32 bytes later (`:101`, `:71`); a UDP flow first seen at the reply lists the
  client's port as open (`builder.go:131`, `:115`); a retransmitted ClientHello discards the certificate
  (`builder.go:321`).
- TLS: TLS 1.0 and 1.1 are derived with the PRF of 1.2 (`resolve.go:141`), and `OpenTLS12CBCRecord`, whose
  comment (`record12.go:109`) promises the implicit IV of 1.0, always takes the first block for the IV; 0-RTT
  records advance the handshake counter, so that the client's Finished and what follows it stay closed
  (`decrypt.go:93`). `firstHandshakeBody` needs the whole message in one record of one segment
  (`proto/tls.go:97`), so a large ClientHello or chain is not shown, and when a record boundary falls inside the
  header of a message it takes what follows for a header, so that a certificate message of 257 bytes split after
  its third is shown as a ClientHello (`proto/tls.go:94`); the version of a flow is that of the
  ClientHello's legacy field (`builder.go:321`), which TLS 1.3 freezes at 1.2.
- Files: two updates at once can tear a database, and change one an analysis has open, until the next update
  that runs alone (`updatedb.go:140`); saves at once lose settings (`config.go:137`); `README.md:36` calls `update-db` the only command that reaches the internet, while `analyze` asks
  WHOIS servers by default; after a failure at the second edition the manifest does not list the first, and a
  manifest cut short makes every later update refuse to start (`updatedb.go:167`); an empty `config.yaml`
  silently means the defaults (`config.go:122`); `enrichment.enabled`, `report.default_formats` and
  `report.default_reports` are stored and never read; `geoip.Open` leaves the city database open when the ASN
  one fails.
- Analysis: `--whois-limit` acts on a table already cut to `topN`; an unknown format or report is found only
  when its turn comes, after earlier files were written (`analyze_cmd.go:277`); the list of generated files
  omits the diagram; a finding on a loopback flow names its host twice and so repeats its id; ARP-only hosts
  carry no ids; ids depend on the order of maps; the timeline may have more than 60 buckets; exfiltration looks
  only from A to B; the NULL flag of a flow hides its FIN and XMAS flags in `malformed.go`; a name on the list
  of indicators is reported for the first host that asked only; the diagram's note appears when a column
  overflows, not when flows are left out.

## 4. Proofs

Every theorem holds for all values of the constants that the named assumptions of the modules allow. In
each case the property is not inductive by itself; what makes it so is named here.

`TlsPathProofs`, about reassembly (any cutting, any cap, any initial numbers, a window below half the number space):
`TypeCorrect`, `InOrderDelivery` (`FedInOrder` and `InPlace`), `FedFromHello`, and `Refinement`
(`Spec => DeliversOrderedStream`). Those about order assume `StreamLen < M`: one connection carries less than
2^32 bytes a side. It is needed: an overtaken payload left in `pending` is found again when its number comes
round. The inductive invariant is `Ordered == TypeOK /\ FedInOrder /\ InPlace`: the loop feeds whatever
`pending` holds under the next number, so one must know that a payload stored under a number really begins at
the position this number stands for, and that `nextSeq` and the payload in hand are where `out` ends. The
arithmetic rests on `WrapInjective` (below one turn, a number names one position), `SignedDiffExact` (the
signed difference of two positions less than half the space apart is their difference) and `NextNumber`.
`Tracking` adds that nothing is in hand once the connection is given up, that a direction has started only if
the flow is tracked, and that the first byte fed for the client comes from a segment that looks like a hello;
`StepRefines` combines both into the step simulation.

For `BufferCapped` (`BoundedBuffer`) the invariant is that the bytes in `pending` sum to no more than
`pendingBytes`, and that to no more than the cap. They are not equal: an entry stored twice under one number is
counted twice, which is why the theorem is about a bound. `NothingMissing` (`Complete`) has the premise `Uncut`:
no two payloads overlap without being equal. `Lossless` adds to `Ordered` that every pending payload is a
whole segment, that `nextSeq` always stands at a boundary, and that what was captured is fed, pending or in
hand: only then does the lookup under exactly `nextSeq` miss nothing. `KeptInPlace` is `InPlace` alone.

`TlsPathProofs`, about the whole path, for any headers (`HeadersAssumption`: every header states some length)
and any cutting into segments. `PathReassembles` (`PathSpec => Spec`) makes every theorem of reassembly one of the composed path.
`BytesInOnePlace` (`FramesAbut`) says that records, messages and what waits in the two buffers are, end to end,
what was fed. `CutAsOneStream` goes further: they are what one reading of all fed bytes would cut. Both
rest on `InFrames`: what is cut abuts and each piece is as long as its header states; between packets less
than a whole one waits. `CutFromCapture` (`WholeFrames`) puts this and `NothingMissing` together: what the session has
cut between packets is what the bytes captured without a gap hold.

`DataLemmas` holds what these and the next proofs need of sums (`SumFunctionOnSet`) and of flattened
sequences: a sum changes by the difference when one value does, `FlattenSeq` of one sequence more is one
concatenation more. `SumParts` adds up a set part by part. The library states such facts by induction over
an operator, which no installed prover can instantiate. Here each is proved from the recursive function that
defines it, by taking the least number for which it would fail (`LeastNumber`).

`TlsSessionProofs`: `SessionTyped`, `VerdictStays` (`VerdictIsFinal`) and `SurfacesPrefix`
(`SurfacedIsPrefix`), for every set of connections that satisfies `ConnsAssumption` and `SenderAssumption` (a
sender numbers the records under one key from 0 without gaps, and its data in order). `Surfacing` relates the
counter to the sender's: while it stands where the sender's stands, everything before it has been surfaced;
once it falls behind or runs ahead it never meets the sender's again, and nothing opens.

`ResolvesRightly` (`ResolvedKeysFit`) and `SurfacesAll` (`AllSurfaced`) have the premise `CausalHandshakes`: a
causal connection with a known suite is a handshake as TLS 1.2 or 1.3 prescribes it (`Proper`). DHE_PSK, for which
`tls_psk_family` refutes the first, and the versions before 1.2 are not among these. The invariant of TLS 1.2,
`InOrder12`, says that the messages read are those of the records taken and no others (`Reads`), so the
transcript and what was learned fit the handshake (`Learned12`); a direction is encrypted just when its
ChangeCipherSpec was taken (`Switched`); the verdict is there once everything it is made of has been seen, and
right if the secret is (`Verdict12`); and then the counter stands where the sender's stands (`Counts12`) and
everything is out (`Out`). `InOrder13` is its counterpart, without a transcript.

`FlowTableProofs`: `TablesTyped`, `NamesReachHosts` (`NamesApplied`), `SpansStayNested` (`SpansNest`),
`DirectionsTold` (`DirectionCounts`), `BooksStayBalanced` (`BooksBalance`). `Shape` says that flows are filed under the key of their ends, both of
which have a host, `Spans` that no host exists before the first packet is counted, `Counts` that whatever was
sent between two ends has its flow and is counted there. The books balance because each packet adds the same
length to one flow, on one side, and to one or two hosts, once to one that talks to itself: `DataLemmas` turns
that into sums over all flows of a host and over all protocols.

`HomeDirProofs`, for any number of runs, editions, parts, versions and
addresses:

- `Typed` (`TypeOK`), from `TypeInv`: each command's memory has the shape its place in the code needs (an
  update under way has an edition, a lookup an address).
- `KeepsSettings` (`SettingsKept`), from `SavingInv`: what any two saves alive at one time were asked for is in
  `lost`; what a save will write agrees with what was wanted in every setting outside `lost`, but for its own
  change; and the file is empty only between the two steps of a save, unless all is lost.
- `AsksAsSettled` (`NoUnaskedQueries`), from `AskingInv`: a run on its way to a query has read settings that
  allow it and were in force, or was caught.
- `GivesFreshRecords` (`FreshRecords`): a record in the cache or in hand is no younger than it says.
- `InstallsWhole` and `KeepsOpened`, from `DatabaseInv`: nobody but its maker brings an inode into use
  (`UnusedInv`); while a copy is private, one run at most copies the edition, the parts it has
  copied are of its version, and its temporary inode is none of those installed or opened (`CopyingInv`).
  What makes a copy private (`Private`) is that no other update has copied its edition meanwhile, or that its
  update has met none at all (`AloneInv`): the second is why an update that runs alone mends what others tore.
- `ManifestHonest` and `LeavesCurrent`, from `VersionInv`: what an update that has met no other has installed so
  far is no older than what the server offered when it began, and is what it remembers (`Progress`); as long as no
  two have met, the manifest and the memory of each are behind what is installed (`Modest`).

`AnalysisProofs`, for any captures, thresholds and options of the shape `CapturesAssumption`,
`CommandsAssumption`, `LimitsAssumption`, `PortsAssumption` and `ReportAssumption` give them:

- `WritesWhatItSays` (`FilesTellTheTruth`), from `PlaceInv` (where the two loops stand fits the options) and
  `FilesInv`: what is new is what the rounds that are over had to write, plus the diagram once it is drawn, and
  the list of written files is the same without the diagram.
- `AsksWithinBudget` (`WhoisBudget`), from `LookupInv`: the talkers of every table come by bytes, and those asked
  followed by those still to ask are the busiest external ones. That `Targets` picks these is `Chosen`.
- `RanksFindings` (`FindingsRanked`). `SortRanks` shows that the insertion sort yields the findings of severity
  4, then 3, and so on, each in the order they came, for any sequence of findings: an insertion passes exactly
  the lower ranks. What it needs, that every finding has one of the five severities, is `PassesGraded`, one case
  per detector, and `DetectInv` carries it from pass to pass.
- `RiskCovers` (`RiskCoversFindings`), from `ReportInv`: a report is one that `Build` makes of the sorted
  findings, with its diagram or without. `RanksFall` makes the ranks descend, so that the first are the worst,
  and `OverallCovers` is the arithmetic of score and thresholds.

- `FindsLargestBurst` (`BurstIsLargest`). `SweepFinds` is the argument for `maxBurst`: the window that ends at a
  time begins no earlier than the one that ends at the time before, so going over the times once finds the
  longest window of each end; `MaxBurstIs` adds that a window that begins at one of the times holds no more than
  one that ends at the last time it holds. `BurstInv` carries what the pass found through the other passes,
  which report no burst, and `BurstsRanked` through the sort.
- `FlagsAgree` (`FlaggedAgree`) and `DrawsHonestly` (`DiagramHonest`), from `DetectInv` and `ReportInv` again.
  `FindingIdsAre` says that a host is given the number of a finding just when the finding names it; the
  security view and the inventory then agree because the tables know the ends of every flow. For the diagram,
  which answers for the hosts of the flows it set out to draw and for no others,
  `Halves` and `ColumnsAre` show that the two halves of an overfull column share out its hosts, so that each
  has one box at most and one without a box is left out for want of room.
- `AddsUp` (`TotalsAgree`), from `SummaryInv`: the summary of a report is one of the capture. `RowsAddUp` is what
  the two tables have in common: rows that share out the flows add up to all of them (`SumParts` of
  `DataLemmas`), whatever decides which row a flow is in. The buckets come in order because `BucketsIn` bounds the
  length of a bucket away from zero, also in a capture shorter than the 60 buckets.

`CapturesAssumption` says what these need of the tables: finitely many hosts and flows, events in a list, whole
numbers for addresses, times and bytes, a host for each end of a flow and no flow without a packet (`Shape` and
`Spans` of `FlowTableProofs` are where that is proved of the builder).

`RecordLayerProofs` and `TlsWireProofs`, for any table of suites (`SuitesAssumption`), any size of blocks, tags
and explicit nonces (`SizesAssumption`), any contents (`ContentsAssumption`), any base above 1 and length of
randoms (`BytesAssumption`), and any messages that can be written (`MessagesAssumption`):

- `RecordsOpenExactly` (`OpensExactly`) and `RecordContentExact` (`ContentExact`). `KeysMatch` shows that both ends
  cut the key block at the same places. Then there is one lemma per mode (`GcmOpens`, `ImplicitOpens`, `Opens13`,
  `CbcOpens`, `CbcEtmOpens`): the sealed body opens to its content under the right key and counter and to
  nothing under any other, and a piece of it, as `Misframe` leaves one, does not open. In the AEAD modes a tag belongs to one box
  (`BoxOpens`, `PieceStaysShut`). In the CBC modes `CbcExact` says that decrypting what was chained gives
  the plaintext back, and `CbcPiece` what a piece of it decrypts to: junk, but for blocks that still stand behind their
  predecessor. `MacFitsOnlyThere` then excludes, for every padding byte that junk may be, that the MAC is found at a
  place where it was not put, and `EtmOnlyThere` the same of a MAC over the ciphertext.
- `MessagesReadAsWritten` (`MessagesRead`). `Items` is a function that recurs on the place it reads at. `Onward` takes
  it over one item that was written; the list of all is by the least item from which it would go wrong. So what
  was laid out is read (`ClientRead`, `ServerRead`, `KeyExchangeRead`), and of a message that is cut every
  item read is one that was written (`BodyCut`), which is what `Honest` asks.

Both need one invariant, `Inv` (`InvHolds`): which of the two orders of MAC and encryption a session uses is
read from the hellos. `HelloInv` says that it is what the peers agreed on (`EtmAgreed`), and before that, for each
hello that was read whole, that what was kept of it is what it offers (`AgreedHello`). `RecordInv` says that what
travels is what `Sealed` makes of its content or, no longer `whole`, a piece of that.

Only model-checked: `Settles`, as liveness is out of the prover's reach, and `PayloadsRead`, whose proof has not
been attempted. The latter makes no claim about a message whose four-byte header is split over records.
`firstHandshakeBody` goes on to the next record when fewer than four bytes are left in one, and there a byte of
the message's length may be taken for a message type: a certificate message whose length ends in 1, split after
three bytes, is shown as a ClientHello. The instance has one of that length, so the exception is needed.

## 5. Not modelled

- The primitives of cryptography, the PRF and HKDF, RSA decryption, the table of cipher suites: arithmetic and
  data. `RecordLayer` takes them as symbols.
- `creds.go` and `entropy.go`: patterns in one payload, without state; their results are fields of a packet or
  query.
- The error of closing a database's temporary file (`updatedb.go:150`), which the code ignores: a file whose last
  bytes a file system loses only then would be installed as whole.
- A captured segment half the number space or more away from the byte due (`Window`).
- What an answer of a WHOIS server says, what a GeoIP database returns: a record is where it came from and
  when, a database knows a host or not.
- What reports look like (`markdown.go`, the text of `csv.go` and `svg.go`, `buildHighlights`): formatting.
- `tlskeys`, `pcapdata`, `version`: sequential reading of files, and constants.

## 6. What could follow

1. A record of `TlsSession` with several messages under the handshake keys (`decHSBuf`), which `RecordStream`
   models in the clear only.
2. `observeInterval` and the limit on the intervals a flow keeps.
3. A proof of `PayloadsRead`.
