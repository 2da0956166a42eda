--------------------------- MODULE AnalysisProofs ---------------------------
(***************************************************************************)
(* WHOIS is asked about the busiest external hosts within the limit, the   *)
(* files tell the truth, the findings are sorted whatever they are, the    *)
(* largest burst of announcements is among them, the risk a report states  *)
(* covers every one of them, the hosts it flags and the lines it draws are *)
(* the right ones, and its tables add up: for any captures, any options    *)
(* and any failure.                                                        *)
(***************************************************************************)
EXTENDS Analysis, DataLemmas

-----------------------------------------------------------------------------
(* Those *)

\* What is taken out of a sequence is a sequence of such elements ...
LEMMA ThoseType ==
  ASSUME NEW S, NEW T, NEW s \in Seq(S)
  PROVE  Those(s, T) \in Seq(S \cap T)
<1> DEFINE ss == [i \in DOMAIN s |-> If(s[i] \in T, s[i])]
           U == S \cap T
<1>1. ss \in Seq(Seq(U))
  <2>1. \A i \in 1..Len(s) : If(s[i] \in T, s[i]) \in Seq(U)
    <3> SUFFICES ASSUME NEW i \in 1..Len(s) PROVE If(s[i] \in T, s[i]) \in Seq(U)
      OBVIOUS
    <3>1. s[i] \in S
      OBVIOUS
    <3>2. CASE s[i] \in T
      <4>1. s[i] \in U
        BY <3>1, <3>2
      <4> HIDE DEF U
      <4> QED BY <3>2, <4>1 DEF If
    <3>3. CASE s[i] \notin T
      BY <3>3 DEF If
    <3> QED BY <3>2, <3>3
  <2>2. Len(s) \in Nat /\ ss = [i \in 1..Len(s) |-> If(s[i] \in T, s[i])]
    OBVIOUS
  <2> DEFINE W == Seq(U)
             e(i) == If(s[i] \in T, s[i])
  <2> HIDE DEF ss, W, e
  <2> QED BY <2>1, <2>2 DEF W, e
<1>2. FlattenSeq(ss) \in Seq(U)
  <2> HIDE DEF ss, U
  <2> QED BY <1>1, FlattenType
<1> QED BY <1>2 DEF Those

\* ... and grows with the sequence.
LEMMA ThoseAppend ==
  ASSUME NEW S, NEW T, NEW s \in Seq(S), NEW x \in S
  PROVE  Those(Append(s, x), T) = Those(s, T) \o If(x \in T, x)
<1> DEFINE e(y) == If(y \in T, y)
           ss == [i \in DOMAIN s |-> e(s[i])]
           more == [i \in DOMAIN Append(s, x) |-> e(Append(s, x)[i])]
           W == Seq(S)
<1>1. \A y \in S : e(y) \in W
  <2> SUFFICES ASSUME NEW y \in S PROVE e(y) \in W
    OBVIOUS
  <2>1. CASE y \in T
    BY <2>1 DEF If
  <2>2. CASE y \notin T
    BY <2>2 DEF If
  <2> QED BY <2>1, <2>2
<1> HIDE DEF e, W
<1>2. ss \in Seq(W) /\ e(x) \in W
  BY <1>1
<1>3. more = Append(ss, e(x))
  OBVIOUS
<1> HIDE DEF ss, more
<1>4. FlattenSeq(Append(ss, e(x))) = FlattenSeq(ss) \o e(x)
  BY <1>2, FlattenAppend DEF W
<1> QED BY <1>3, <1>4 DEF Those, ss, more, e

\* Nothing is taken out of nothing.
LEMMA ThoseEmpty == ASSUME NEW T PROVE Those(<<>>, T) = <<>>
<1>1. [i \in DOMAIN <<>> |-> If(<<>>[i] \in T, <<>>[i])] = <<>>
  OBVIOUS
<1> QED BY <1>1, FlattenEmpty DEF Those

\* t is made of elements of s, in their order: of two of its places, the
\* earlier holds what s holds earlier.
InOrderOf(t, s) ==
  \A i, j \in DOMAIN t : i < j =>
    \E k, l \in DOMAIN s : k < l /\ t[i] = s[k] /\ t[j] = s[l]

\* What is taken out is all that there is of T, in its order.
LEMMA ThoseAre ==
  ASSUME NEW S, NEW T, NEW s \in Seq(S)
  PROVE  ToSet(Those(s, T)) = ToSet(s) \cap T /\ InOrderOf(Those(s, T), s)
<1> DEFINE Good(u) == ToSet(Those(u, T)) = ToSet(u) \cap T /\ InOrderOf(Those(u, T), u)
           B == {m \in Nat : \E u \in Seq(S) : Len(u) = m /\ ~Good(u)}
<1>1. B = {}
  <2> SUFFICES ASSUME B # {} PROVE FALSE
    OBVIOUS
  <2>1. PICK m \in B : \A j \in B : m <= j
    <3>1. B \subseteq Nat
      OBVIOUS
    <3> HIDE DEF B
    <3> QED BY <3>1, LeastNumber
  <2>2. PICK u \in Seq(S) : Len(u) = m /\ ~Good(u)
    BY <2>1
  <2>3. u # <<>>
    <3>1. Good(<<>>)
      BY ThoseEmpty DEF ToSet, InOrderOf
    <3> HIDE DEF Good
    <3> QED BY <2>2, <3>1
  <2>4. PICK v \in Seq(S), x \in S : u = Append(v, x)
    BY <2>3, SequenceEmptyOrAppend
  <2>5. /\ Len(v) \in Nat /\ m = Len(v) + 1 /\ Len(u) = Len(v) + 1
        /\ \A i \in 1..Len(v) : u[i] = v[i]
        /\ u[Len(v) + 1] = x
    BY <2>2, <2>4, AppendProperties, LenProperties
  <2>6. Good(v)
    <3>1. Len(v) \notin B
      <4> HIDE DEF B
      <4>1. m \in Nat
        BY <2>5
      <4> QED BY <2>1, <2>5, <4>1
    <3> QED BY <2>5, <3>1
  <2> DEFINE p == Those(v, T)
             q == Those(u, T)
             e == If(x \in T, x)
  <2>7. p \in Seq(S) /\ q = p \o e
    <3>1. p \in Seq(S \cap T)
      BY ThoseType
    <3>2. q = p \o e
      BY <2>4, ThoseAppend
    <3> HIDE DEF p, q, e
    <3> QED BY <3>1, <3>2
  <2>8. ToSet(p) = ToSet(v) \cap T /\ InOrderOf(p, v)
    BY <2>6
  <2>9. /\ Len(p) \in Nat /\ DOMAIN p = 1..Len(p) /\ DOMAIN v = 1..Len(v) /\ DOMAIN u = 1..(Len(v) + 1)
    BY <2>5, <2>7
  <2> HIDE DEF p, q, Good, B
  <2>10. ToSet(u) = ToSet(v) \cup {x}
    BY <2>5, <2>9 DEF ToSet
  <2>11. CASE x \notin T
    <3>1. q = p
      BY <2>7, <2>11 DEF If
    <3>2. ToSet(q) = ToSet(u) \cap T
      BY <2>8, <2>10, <2>11, <3>1
    <3>3. InOrderOf(q, u)
      BY <2>5, <2>8, <2>9, <3>1 DEF InOrderOf
    <3> QED BY <2>2, <3>2, <3>3 DEF Good, q
  <2>12. CASE x \in T
    <3>1. q = p \o <<x>>
      BY <2>7, <2>12 DEF If
    <3>2. /\ q = Append(p, x) /\ DOMAIN q = 1..(Len(p) + 1)
          /\ \A i \in 1..Len(p) : q[i] = p[i]
          /\ q[Len(p) + 1] = x
      BY <2>7, <2>9, <3>1
    <3>3. ToSet(q) = ToSet(p) \cup {x}
      BY <2>9, <3>2 DEF ToSet
    <3>4. ToSet(q) = ToSet(u) \cap T
      BY <2>8, <2>10, <2>12, <3>3
    <3>5. InOrderOf(q, u)
      <4> SUFFICES ASSUME NEW i \in DOMAIN q, NEW j \in DOMAIN q, i < j
                   PROVE  \E k, l \in DOMAIN u : k < l /\ q[i] = u[k] /\ q[j] = u[l]
        BY DEF InOrderOf
      <4>1. i \in 1..Len(p) /\ q[i] = p[i]
        BY <2>9, <3>2
      <4>2. CASE j \in 1..Len(p)
        <5>1. PICK k \in DOMAIN v, l \in DOMAIN v : k < l /\ p[i] = v[k] /\ p[j] = v[l]
          BY <2>8, <2>9, <4>1, <4>2 DEF InOrderOf
        <5> QED BY <2>5, <2>9, <3>2, <4>1, <4>2, <5>1
      <4>3. CASE j = Len(p) + 1
        <5>1. PICK k \in DOMAIN v : p[i] = v[k]
          BY <2>8, <2>9, <4>1 DEF ToSet
        <5> QED BY <2>5, <2>9, <3>2, <4>1, <4>3, <5>1
      <4> QED BY <2>9, <3>2, <4>2, <4>3
    <3> QED BY <2>2, <3>4, <3>5 DEF Good, q
  <2> QED BY <2>11, <2>12
<1>2. Len(s) \in Nat
  BY LenProperties
<1> QED BY <1>1, <1>2

-----------------------------------------------------------------------------
(* What is to be written *)

\* A list of options is a sequence, of whatever it may be.
IsList(s) == Len(s) \in Nat /\ DOMAIN s = 1..Len(s)

\* What a comma-separated option stands for is a list.
LEMMA ExpandedIsList ==
  ASSUME NEW parts \in Seq(STRING), NEW all, NEW alias, IsList(all)
  PROVE  IsList(ExpandList(parts, all, alias))
<1> DEFINE named == [i \in DOMAIN parts |-> IF parts[i] \in DOMAIN alias THEN alias[parts[i]] ELSE parts[i]]
           W == {named[i] : i \in DOMAIN parts}
           some == ToSet(named) \ {""}
           whole == parts \in {<<>>, <<"">>, <<"all">>}
<1>1. ExpandList(parts, all, alias) = IF whole THEN all ELSE Those(named, some)
  BY Zenon DEF ExpandList
<1> HIDE DEF whole, some
<1>2. named \in Seq(W)
  <2>1. \A i \in 1..Len(parts) : named[i] \in W
    OBVIOUS
  <2>2. named = [i \in 1..Len(parts) |-> named[i]] /\ Len(parts) \in Nat
    OBVIOUS
  <2> HIDE DEF named, W
  <2> QED BY <2>1, <2>2
<1> HIDE DEF named, W
<1>3. Those(named, some) \in Seq(W \cap some)
  BY <1>2, ThoseType
<1>4. IsList(Those(named, some))
  BY <1>3 DEF IsList
<1> QED BY <1>1, <1>4

\* So are the formats and the reports asked for.
LEMMA Lists == ASSUME opts \in Commands PROVE IsList(formats) /\ IsList(reports)
<1>1. opts.formats \in Seq(STRING) /\ opts.reports \in Seq(STRING)
  BY CommandsAssumption
<1>2. IsList(Formats) /\ IsList(Reports)
  BY DEF IsList, Formats, Reports
<1>3. IsList(formats)
  BY <1>1, <1>2, ExpandedIsList, Zenon DEF formats
<1>4. IsList(reports)
  BY <1>1, <1>2, ExpandedIsList, Zenon DEF reports
<1> QED BY <1>3, <1>4

\* A writer that is known leaves at least one file, and only files that are
\* in the list of names.
LEMMA WriterLeaves ==
  ASSUME NEW format \in ToSet(Formats), NEW kind \in ToSet(Reports)
  PROVE  /\ IsList(FilesOf(format, kind))
         /\ FilesOf(format, kind) \in Seq(FileNames)
         /\ Len(FilesOf(format, kind)) >= 1
<1> DEFINE F == FilesOf(format, kind)
           tables == CASE kind = "network"   -> <<"hosts", "flows", "protocols", "top-ports">>
                       [] kind = "security"  -> <<"findings", "flagged-hosts">>
                       [] kind = "executive" -> <<"summary", "top-findings">>
<1>1. kind \in {"network", "security", "executive"} /\ format \in {"json", "csv", "markdown"}
  BY DEF ToSet, Formats, Reports
<1>2. IsList(tables) /\ Len(tables) >= 1
  <2>1. CASE kind = "network"
    <3>1. tables = <<"hosts", "flows", "protocols", "top-ports">>
      BY <2>1
    <3> HIDE DEF tables
    <3> QED BY <3>1 DEF IsList
  <2>2. CASE kind = "security"
    <3>1. tables = <<"findings", "flagged-hosts">>
      BY <2>2
    <3> HIDE DEF tables
    <3> QED BY <3>1 DEF IsList
  <2>3. CASE kind = "executive"
    <3>1. tables = <<"summary", "top-findings">>
      BY <2>3
    <3> HIDE DEF tables
    <3> QED BY <3>1 DEF IsList
  <2> QED BY <1>1, <2>1, <2>2, <2>3
<1>3. F = IF format # "csv" THEN << <<format, kind>> >> ELSE [i \in DOMAIN tables |-> <<format, kind, tables[i]>>]
  BY DEF FilesOf
<1> HIDE DEF tables
<1>4. IsList(F) /\ Len(F) >= 1
  <2>1. CASE format # "csv"
    BY <1>3, <2>1 DEF IsList
  <2>2. CASE format = "csv"
    <3>1. F = [i \in 1..Len(tables) |-> <<format, kind, tables[i]>>]
      BY <1>2, <1>3, <2>2 DEF IsList
    <3>2. Len(F) = Len(tables) /\ DOMAIN F = 1..Len(tables)
      BY <1>2, <3>1 DEF IsList
    <3> QED BY <1>2, <3>2 DEF IsList
  <2> QED BY <2>1, <2>2
<1>5. \A k \in DOMAIN F : F[k] \in FileNames
  <2>1. PICK i \in DOMAIN Formats, j \in DOMAIN Reports : format = Formats[i] /\ kind = Reports[j]
    BY DEF ToSet
  <2>2. ToSet(F) \subseteq FileNames
    BY <2>1 DEF FileNames
  <2> HIDE DEF F
  <2> QED BY <2>2 DEF ToSet
<1>6. F = [k \in DOMAIN F |-> F[k]]
  <2>1. CASE format # "csv"
    BY <1>3, <2>1
  <2>2. CASE format = "csv"
    BY <1>3, <2>2
  <2> QED BY <2>1, <2>2
<1> HIDE DEF F
<1>7. F \in Seq(FileNames)
  BY <1>4, <1>5, <1>6 DEF IsList
<1> QED BY <1>4, <1>7 DEF F

-----------------------------------------------------------------------------
(* Files.  Every place before the one renderReports is at has been         *)
(* written, and nothing else has.                                          *)

Known == /\ at[1] <= Len(formats) /\ Format \in ToSet(Formats)
         /\ at[2] <= Len(reports) /\ Kind \in ToSet(Reports)

\* The file belongs to a report that is finished, or to the one at hand.
Finished(n) ==
  \E i \in DOMAIN formats, j \in DOMAIN reports :
    /\ i < at[1] \/ (i = at[1] /\ j < at[2])
    /\ n \in ToSet(FilesOf(formats[i], reports[j]))

Started(n) == \E k \in 1..(at[3] - 1) : n = FilesOf(Format, Kind)[k]

Drawn(n) == n = DiagramFile /\ opts.diagram /\ step \in {"render", "ok"}

PlaceInv ==
  /\ opts \in Commands
  /\ \E x, y, z \in Nat \ {0} : at = <<x, y, z>> /\ x <= Len(formats) + 1 /\ y <= Len(reports) + 1
  /\ at[3] # 1 => Known /\ at[3] <= Len(FilesOf(Format, Kind))
  /\ step \notin {"render", "ok", "failed"} => at = <<1, 1, 1>>
  /\ step = "diagram" => opts.diagram
  /\ step = "ok" => at[1] > Len(formats)

FilesInv ==
  /\ files \in [FileNames -> {"absent", "old", "torn", "new"}]
  /\ written \in Seq(FileNames)
  /\ \A n : n \in ToSet(written) <=> Finished(n)
  /\ step # "failed" =>
       \A n \in FileNames : files[n] # "torn" /\ (files[n] = "new" <=> Finished(n) \/ Started(n) \/ Drawn(n))
  /\ step = "failed" => \E x : \A n \in FileNames : files[n] = "torn" => n = x

\* The lists depend on the options only.
LEMMA SameLists == ASSUME opts' = opts PROVE formats' = formats /\ reports' = reports
BY DEF formats, reports

\* Nothing is written when a run starts.
LEMMA FilesInitially == Init => PlaceInv /\ FilesInv
<1> SUFFICES ASSUME Init PROVE PlaceInv /\ FilesInv
  OBVIOUS
<1>1. opts \in Commands /\ at = <<1, 1, 1>> /\ step = "start" /\ written = <<>>
  BY DEF Init
<1>2. IsList(formats) /\ IsList(reports)
  BY <1>1, Lists
<1>3. PlaceInv
  BY <1>1, <1>2 DEF PlaceInv, IsList
<1>4. \A n : ~Finished(n) /\ ~Started(n) /\ ~Drawn(n)
  BY <1>1, <1>2 DEF Finished, Started, Drawn, IsList
<1>5. PICK old \in {"absent", "old"} : files = [n \in FileNames |-> old]
  BY DEF Init
<1>6. FilesInv
  <2>1. files \in [FileNames -> {"absent", "old", "torn", "new"}]
    BY <1>5
  <2>2. \A n \in FileNames : files[n] # "torn" /\ files[n] # "new"
    BY <1>5
  <2>3. written \in Seq(FileNames) /\ \A n : n \notin ToSet(written)
    BY <1>1 DEF ToSet
  <2> QED BY <1>1, <1>4, <2>1, <2>2, <2>3 DEF FilesInv
<1> QED BY <1>3, <1>6

\* A step that writes nothing and goes on as the run should, or fails.
LEMMA NothingWritten ==
  ASSUME PlaceInv, FilesInv, UNCHANGED <<opts, at, written, files>>,
         step = "failed" => step' = "failed",
         step' \notin {"render", "ok", "failed"} => step \notin {"render", "ok", "failed"},
         step' \in {"render", "ok"} /\ opts.diagram => step \in {"render", "ok"},
         step' = "diagram" => opts.diagram,
         step' = "ok" => at[1] > Len(formats)
  PROVE  PlaceInv' /\ FilesInv'
<1>1. formats' = formats /\ reports' = reports
  BY SameLists
<1>2. Format' = Format /\ Kind' = Kind
  BY <1>1 DEF Format, Kind
<1>3. (Known' <=> Known) /\ \A n : (Finished(n)' <=> Finished(n)) /\ (Started(n)' <=> Started(n))
  BY <1>1, <1>2 DEF Known, Finished, Started
<1>4. PlaceInv'
  BY <1>1, <1>2, <1>3 DEF PlaceInv
<1>5. step' # "failed" => \A n : Drawn(n)' <=> Drawn(n)
  BY DEF Drawn
<1>6. step' = "failed" => \E x : \A n \in FileNames : files[n] = "torn" => n = x
  BY DEF FilesInv
<1> QED BY <1>3, <1>4, <1>5, <1>6 DEF FilesInv

\* The diagram is written, cut short or not opened, before any report.
LEMMA DiagramWritten == ASSUME PlaceInv, FilesInv, WriteDiagram PROVE PlaceInv' /\ FilesInv'
<1>1. opts' = opts /\ at' = at /\ written' = written /\ step = "diagram"
  BY DEF WriteDiagram
<1>2. formats' = formats /\ reports' = reports
  BY <1>1, SameLists
<1>3. Format' = Format /\ Kind' = Kind
  BY <1>1, <1>2 DEF Format, Kind
<1>4. (Known' <=> Known) /\ \A n : (Finished(n)' <=> Finished(n)) /\ (Started(n)' <=> Started(n))
  BY <1>1, <1>2, <1>3 DEF Known, Finished, Started
<1>5. step' \in {"render", "failed"}
  BY DEF WriteDiagram, Failed
<1>6. PlaceInv'
  BY <1>1, <1>2, <1>3, <1>4, <1>5 DEF PlaceInv
<1>7. opts.diagram /\ \A n : ~Drawn(n)
  BY <1>1 DEF PlaceInv, Drawn
<1>8. DiagramFile \in FileNames
  BY DEF FileNames
<1>9. CASE Write(DiagramFile) /\ step' = "render"
  <2>1. files' = [files EXCEPT ![DiagramFile] = "new"]
    BY <1>9 DEF Write
  <2>2. \A n : Drawn(n)' <=> n = DiagramFile
    BY <1>1, <1>7, <1>9 DEF Drawn
  <2> QED BY <1>1, <1>4, <1>6, <1>7, <1>8, <1>9, <2>1, <2>2 DEF FilesInv
<1>10. CASE WriteFails(DiagramFile) /\ step' = "failed"
  <2>1. files' \in {files, [files EXCEPT ![DiagramFile] = "torn"]}
    BY <1>10 DEF WriteFails
  <2>2. \A n \in FileNames : files'[n] = "torn" => n = DiagramFile
    BY <1>1, <2>1 DEF FilesInv
  <2>3. files' \in [FileNames -> {"absent", "old", "torn", "new"}]
    BY <2>1 DEF FilesInv
  <2> QED BY <1>1, <1>4, <1>6, <1>10, <2>2, <2>3 DEF FilesInv
<1> QED BY <1>9, <1>10 DEF WriteDiagram, Failed

\* The file at hand is one of its writer's.
LEMMA FileAtHand ==
  ASSUME PlaceInv, Rendering
  PROVE  /\ at[1] \in DOMAIN formats /\ at[2] \in DOMAIN reports
         /\ IsList(FilesOf(Format, Kind)) /\ FilesOf(Format, Kind) \in Seq(FileNames)
         /\ at[3] \in 1..Len(FilesOf(Format, Kind)) /\ File \in FileNames
         /\ step = "render" /\ Known
<1>1. Known /\ step = "render"
  BY DEF Rendering, Known
<1>2. IsList(formats) /\ IsList(reports)
  BY Lists DEF PlaceInv
<1>3. PICK x, y, z \in Nat \ {0} : at = <<x, y, z>>
  BY DEF PlaceInv
<1>4. x \in DOMAIN formats /\ y \in DOMAIN reports
  BY <1>1, <1>2, <1>3 DEF Known, IsList
<1> DEFINE F == FilesOf(Format, Kind)
<1>5. IsList(F) /\ F \in Seq(FileNames) /\ Len(F) >= 1
  BY <1>1, WriterLeaves DEF Known
<1>6. z # 1 => z <= Len(F)
  BY <1>3 DEF PlaceInv
<1>7. File = F[z]
  BY <1>3 DEF File
<1> HIDE DEF F
<1>8. z \in 1..Len(F) /\ F[z] \in FileNames
  BY <1>3, <1>5, <1>6 DEF IsList
<1> QED BY <1>1, <1>3, <1>4, <1>5, <1>7, <1>8 DEF F

\* A report's file is cut short or not opened, and the run ends.
LEMMA ReportFails == ASSUME PlaceInv, FilesInv, WriteReportFails PROVE PlaceInv' /\ FilesInv'
<1>1. opts' = opts /\ at' = at /\ written' = written /\ step = "render" /\ step' = "failed"
  BY FileAtHand DEF WriteReportFails, Failed
<1>2. formats' = formats /\ reports' = reports
  BY <1>1, SameLists
<1>3. Format' = Format /\ Kind' = Kind
  BY <1>1, <1>2 DEF Format, Kind
<1>4. (Known' <=> Known) /\ \A n : Finished(n)' <=> Finished(n)
  BY <1>1, <1>2, <1>3 DEF Known, Finished
<1>5. PlaceInv'
  BY <1>1, <1>2, <1>3, <1>4 DEF PlaceInv
<1>6. files' \in {files, [files EXCEPT ![File] = "torn"]}
  BY DEF WriteReportFails, WriteFails
<1>7. \A n \in FileNames : files'[n] = "torn" => n = File
  BY <1>1, <1>6 DEF FilesInv
<1>8. files' \in [FileNames -> {"absent", "old", "torn", "new"}]
  BY <1>6 DEF FilesInv
<1> QED BY <1>1, <1>4, <1>5, <1>7, <1>8 DEF FilesInv

\* What two sequences hold, one after the other.
LEMMA ToSetConcat ==
  ASSUME NEW S, NEW s \in Seq(S), NEW t \in Seq(S)
  PROVE  s \o t \in Seq(S) /\ \A x : x \in ToSet(s \o t) <=> x \in ToSet(s) \/ x \in ToSet(t)
<1>1. /\ s \o t \in Seq(S) /\ Len(s) \in Nat /\ Len(t) \in Nat
      /\ DOMAIN s = 1..Len(s) /\ DOMAIN t = 1..Len(t) /\ DOMAIN (s \o t) = 1..(Len(s) + Len(t))
      /\ \A i \in 1..Len(s) : (s \o t)[i] = s[i]
      /\ \A i \in 1..Len(t) : (s \o t)[Len(s) + i] = t[i]
  OBVIOUS
<1> DEFINE u == s \o t
<1> HIDE DEF u
<1>2. \A x : x \in ToSet(u) => x \in ToSet(s) \/ x \in ToSet(t)
  <2> SUFFICES ASSUME NEW i \in DOMAIN u PROVE u[i] \in ToSet(s) \/ u[i] \in ToSet(t)
    BY DEF ToSet
  <2>1. CASE i <= Len(s)
    BY <1>1, <2>1 DEF ToSet, u
  <2>2. CASE i > Len(s)
    <3>1. i - Len(s) \in 1..Len(t) /\ i = Len(s) + (i - Len(s))
      BY <1>1, <2>2 DEF u
    <3> QED BY <1>1, <3>1 DEF ToSet, u
  <2> QED BY <1>1, <2>1, <2>2 DEF u
<1>3. \A x : x \in ToSet(s) \/ x \in ToSet(t) => x \in ToSet(u)
  <2>1. \A i \in DOMAIN s : i \in DOMAIN u /\ u[i] = s[i]
    BY <1>1 DEF u
  <2>2. \A i \in DOMAIN t : Len(s) + i \in DOMAIN u /\ u[Len(s) + i] = t[i]
    BY <1>1 DEF u
  <2> QED BY <2>1, <2>2 DEF ToSet
<1> QED BY <1>1, <1>2, <1>3 DEF u

\* A file of a report is written, and after the last of them the report is
\* done.
LEMMA ReportWritten == ASSUME PlaceInv, FilesInv, WriteReport PROVE PlaceInv' /\ FilesInv'
<1> DEFINE F == FilesOf(Format, Kind)
<1>1. /\ at[1] \in DOMAIN formats /\ at[2] \in DOMAIN reports
      /\ IsList(F) /\ F \in Seq(FileNames)
      /\ at[3] \in 1..Len(F) /\ File \in FileNames /\ Known
      /\ opts' = opts /\ step' = step /\ step = "render" /\ opts \in Commands
  BY FileAtHand DEF WriteReport, PlaceInv
<1>2. formats' = formats /\ reports' = reports /\ IsList(formats) /\ IsList(reports)
  BY <1>1, SameLists, Lists
<1>3. PICK x, y, z \in Nat \ {0} : at = <<x, y, z>>
  BY DEF PlaceInv
<1>4. x \in 1..Len(formats) /\ y \in 1..Len(reports) /\ z \in 1..Len(F)
  BY <1>1, <1>2, <1>3 DEF IsList
<1>5. Format = formats[x] /\ Kind = reports[y] /\ File = F[z]
  BY <1>3 DEF Format, Kind, File
<1>6. files' = [files EXCEPT ![File] = "new"]
  BY DEF WriteReport, Write
<1>7. \A n : Drawn(n)' <=> Drawn(n)
  BY <1>1 DEF Drawn
<1>8. \A n : Finished(n) <=> \E i \in DOMAIN formats, j \in DOMAIN reports :
                 (i < x \/ (i = x /\ j < y)) /\ n \in ToSet(FilesOf(formats[i], reports[j]))
  BY <1>3 DEF Finished
<1>9. \A n : Started(n) <=> \E k \in 1..(z - 1) : n = F[k]
  BY <1>3 DEF Started
<1>10. files \in [FileNames -> {"absent", "old", "torn", "new"}] /\ written \in Seq(FileNames)
  BY DEF FilesInv
<1>11. Len(formats) \in Nat /\ Len(reports) \in Nat /\ Len(F) \in Nat /\ DOMAIN F = 1..Len(F)
       /\ DOMAIN formats = 1..Len(formats) /\ DOMAIN reports = 1..Len(reports)
  BY <1>1, <1>2 DEF IsList
<1>12. Proceed
  BY DEF WriteReport
<1>13. CASE z < Len(F)
  <2>1. at' = <<x, y, z + 1>> /\ written' = written
    BY <1>3, <1>12, <1>13 DEF Proceed
  <2>2. Format' = Format /\ Kind' = Kind /\ F' = F
    BY <1>2, <1>5, <2>1 DEF Format, Kind
  <2> HIDE DEF F
  <2>3. Known'
    BY <1>1, <1>2, <1>3, <2>1, <2>2 DEF Known
  <2>4. PlaceInv'
    <3>1. at[1] = x /\ at[2] = y /\ at'[1] = x /\ at'[2] = y /\ at'[3] = z + 1 /\ z + 1 \in Nat \ {0}
      BY <1>3, <2>1
    <3>2. at'[3] <= Len(F')
      BY <1>11, <1>13, <2>2, <3>1
    <3>3. x <= Len(formats') + 1 /\ y <= Len(reports') + 1
      BY <1>2, <1>4, <1>11
    <3> QED BY <1>1, <2>1, <2>3, <3>1, <3>2, <3>3 DEF PlaceInv, F
  <2>5. \A n : Finished(n)' <=> Finished(n)
    BY <1>2, <1>8, <2>1 DEF Finished
  <2>6. \A n : Started(n)' <=> \E k \in 1..z : n = F[k]
    BY <1>3, <2>1, <2>2 DEF Started, F
  <2>7. \A n : Started(n)' <=> Started(n) \/ n = File
    <3>1. 1..z = 1..(z - 1) \cup {z}
      BY <1>4, <1>11
    <3> QED BY <1>5, <1>9, <2>6, <3>1
  <2> QED BY <1>1, <1>6, <1>7, <1>10, <2>1, <2>4, <2>5, <2>7 DEF FilesInv
<1>14. CASE ~(z < Len(F))
  <2>1. at' = <<x, y + 1, 1>> /\ written' = written \o F
    BY <1>3, <1>12, <1>14 DEF Proceed
  <2>2. z = Len(F)
    <3>1. z \in 1..Len(F) /\ Len(F) \in Nat /\ ~(z < Len(F))
      BY <1>4, <1>11, <1>14
    <3> HIDE DEF F
    <3> QED BY <3>1
  <2> HIDE DEF F
  <2>3. PlaceInv'
    <3>1. x <= Len(formats') + 1 /\ y + 1 <= Len(reports') + 1 /\ y + 1 \in Nat \ {0}
      BY <1>2, <1>4, <1>11
    <3>2. at'[3] = 1
      BY <2>1
    <3> QED BY <1>1, <2>1, <3>1, <3>2 DEF PlaceInv
  <2>4. \A n : ~Started(n)'
    BY <2>1 DEF Started
  <2>5. \A n : Finished(n)' <=> \E i \in DOMAIN formats, j \in DOMAIN reports :
                  (i < x \/ (i = x /\ j < y + 1)) /\ n \in ToSet(FilesOf(formats[i], reports[j]))
    BY <1>2, <2>1 DEF Finished
  <2>6. \A n : Finished(n)' <=> Finished(n) \/ n \in ToSet(F)
    <3>1. \A n : Finished(n) => Finished(n)'
      BY <1>8, <1>11, <2>5
    <3>2. \A n : n \in ToSet(F) => Finished(n)'
      BY <1>4, <1>5, <1>11, <2>5 DEF F
    <3>3. ASSUME NEW n, Finished(n)' PROVE Finished(n) \/ n \in ToSet(F)
      <4>1. PICK i \in DOMAIN formats, j \in DOMAIN reports :
               (i < x \/ (i = x /\ j < y + 1)) /\ n \in ToSet(FilesOf(formats[i], reports[j]))
        BY <2>5, <3>3
      <4>2. CASE i < x \/ (i = x /\ j < y)
        BY <1>8, <4>1, <4>2
      <4>3. CASE i = x /\ j = y
        BY <1>5, <4>1, <4>3 DEF F
      <4> QED BY <1>11, <4>1, <4>2, <4>3
    <3> QED BY <3>1, <3>2, <3>3
  <2>7. \A n : n \in ToSet(F) <=> Started(n) \/ n = File
    <3>1. DOMAIN F = 1..(z - 1) \cup {z}
      BY <1>4, <1>11, <2>2
    <3> QED BY <1>5, <1>9, <3>1 DEF ToSet
  <2>8. /\ written' \in Seq(FileNames)
        /\ \A n : n \in ToSet(written') <=> n \in ToSet(written) \/ n \in ToSet(F)
    BY <1>1, <1>10, <2>1, ToSetConcat
  <2> QED BY <1>1, <1>6, <1>7, <1>10, <2>1, <2>3, <2>4, <2>6, <2>7, <2>8 DEF FilesInv
<1> QED BY <1>13, <1>14

\* After the last report comes the next format.
LEMMA FormatDone == ASSUME PlaceInv, FilesInv, NextFormat PROVE PlaceInv' /\ FilesInv'
<1>1. opts' = opts /\ step' = step /\ step = "render" /\ written' = written /\ files' = files
      /\ opts \in Commands
  BY DEF NextFormat, PlaceInv
<1>2. formats' = formats /\ reports' = reports /\ IsList(formats) /\ IsList(reports)
  BY <1>1, SameLists, Lists
<1>3. PICK x, y, z \in Nat \ {0} : at = <<x, y, z>> /\ y <= Len(reports) + 1
  BY DEF PlaceInv
<1>4. x <= Len(formats) /\ y > Len(reports) /\ at' = <<x + 1, 1, 1>>
  BY <1>3 DEF NextFormat
<1>5. /\ Len(formats) \in Nat /\ Len(reports) \in Nat
      /\ DOMAIN formats = 1..Len(formats) /\ DOMAIN reports = 1..Len(reports)
  BY <1>2 DEF IsList
<1>6. z = 1
  BY <1>3, <1>4, <1>5 DEF PlaceInv, Known
<1>7. PlaceInv'
  <2>1. x + 1 \in Nat \ {0} /\ x + 1 <= Len(formats') + 1 /\ 1 <= Len(reports') + 1 /\ at'[3] = 1
    BY <1>2, <1>3, <1>4, <1>5
  <2> QED BY <1>1, <1>4, <2>1 DEF PlaceInv
<1>8. \A n : ~Started(n) /\ ~Started(n)' /\ (Drawn(n)' <=> Drawn(n))
  BY <1>1, <1>3, <1>4, <1>6 DEF Started, Drawn
<1>9. \A n : Finished(n) <=> \E i \in DOMAIN formats, j \in DOMAIN reports :
                 (i < x \/ (i = x /\ j < y)) /\ n \in ToSet(FilesOf(formats[i], reports[j]))
  BY <1>3 DEF Finished
<1>10. \A n : Finished(n)' <=> \E i \in DOMAIN formats, j \in DOMAIN reports :
                 (i < x + 1 \/ (i = x + 1 /\ j < 1)) /\ n \in ToSet(FilesOf(formats[i], reports[j]))
  BY <1>2, <1>4 DEF Finished
<1>11. \A i \in DOMAIN formats, j \in DOMAIN reports :
         (i < x \/ (i = x /\ j < y)) <=> (i < x + 1 \/ (i = x + 1 /\ j < 1))
  <2> SUFFICES ASSUME NEW i \in 1..Len(formats), NEW j \in 1..Len(reports)
               PROVE  (i < x \/ (i = x /\ j < y)) <=> (i < x + 1 \/ (i = x + 1 /\ j < 1))
    BY <1>5
  <2>1. i \in Nat /\ j \in Nat /\ j < y /\ ~(j < 1) /\ i <= Len(formats) /\ j <= Len(reports)
    BY <1>3, <1>4, <1>5
  <2>2. (i < x \/ i = x) <=> i < x + 1
    BY <1>3, <2>1
  <2> QED BY <2>1, <2>2
<1>12. \A n : Finished(n)' <=> Finished(n)
  BY <1>9, <1>10, <1>11
<1> QED BY <1>1, <1>7, <1>8, <1>12 DEF FilesInv

\* Every step keeps both parts of the invariant.
LEMMA FilesKept == PlaceInv /\ FilesInv /\ [Next]_vars => PlaceInv' /\ FilesInv'
<1> SUFFICES ASSUME PlaceInv, FilesInv, [Next]_vars PROVE PlaceInv' /\ FilesInv'
  OBVIOUS
<1>1. CASE WriteDiagram
  BY <1>1, DiagramWritten
<1>2. CASE WriteReport
  BY <1>2, ReportWritten
<1>3. CASE WriteReportFails
  BY <1>3, ReportFails
<1>4. CASE NextFormat
  BY <1>4, FormatDone
<1>5. CASE CannotRead \/ Unknown
  <2>1. step' = "failed" /\ UNCHANGED <<opts, at, written, files>>
    BY <1>5 DEF CannotRead, Unknown, Failed, renderVars
  <2> QED BY <2>1, NothingWritten
<1>6. CASE Prepare \/ Compute \/ LoadIOCs \/ RunPass \/ Sort \/ SetupGeoIP \/ RunWHOIS \/ LookUp
  <2>1. /\ UNCHANGED <<opts, at, written, files>>
        /\ step \notin {"render", "ok", "failed"} /\ step' \notin {"diagram", "render", "ok", "failed"}
    BY <1>6 DEF Prepare, Compute, LoadIOCs, RunPass, Sort, SetupGeoIP, RunWHOIS, LookUp, renderVars
  <2> QED BY <2>1, NothingWritten
<1>7. CASE BuildReport
  <2>1. /\ UNCHANGED <<opts, at, written, files>> /\ step = "lookup"
        /\ step' = IF opts.diagram THEN "diagram" ELSE "render"
    BY <1>7 DEF BuildReport, renderVars
  <2> QED BY <2>1, NothingWritten
<1>8. CASE Finish
  <2>1. UNCHANGED <<opts, at, written, files>> /\ step = "render" /\ step' = "ok" /\ at[1] > Len(formats)
    BY <1>8 DEF Finish, renderVars
  <2> QED BY <2>1, NothingWritten
<1>9. CASE UNCHANGED vars
  <2>1. UNCHANGED <<opts, at, written, files, step>>
    BY <1>9 DEF vars, renderVars
  <2>2. step = "diagram" => opts.diagram
    BY DEF PlaceInv
  <2>3. step = "ok" => at[1] > Len(formats)
    BY DEF PlaceInv
  <2> QED BY <2>1, <2>2, <2>3, NothingWritten
<1> QED BY <1>1, <1>2, <1>3, <1>4, <1>5, <1>6, <1>7, <1>8, <1>9 DEF Next

\* They are what the files have to tell.
LEMMA FilesTrue == PlaceInv /\ FilesInv => FilesTellTheTruth
<1> SUFFICES ASSUME PlaceInv, FilesInv PROVE FilesTellTheTruth
  OBVIOUS
<1> DEFINE wanted == UNION {ToSet(FilesOf(formats[i], reports[j])) : i \in DOMAIN formats, j \in DOMAIN reports}
           torn == {n \in FileNames : files[n] = "torn"}
<1>1. ASSUME step = "ok"
      PROVE  /\ ToSet(written) = wanted
             /\ {n \in FileNames : files[n] = "new"} = wanted \union IF opts.diagram THEN {DiagramFile} ELSE {}
  <2>1. at[1] > Len(formats) /\ IsList(formats) /\ IsList(reports)
    BY <1>1, Lists DEF PlaceInv
  <2>2. PICK x, y, z \in Nat : at = <<x, y, z>>
    BY DEF PlaceInv
  <2>3. \A i \in DOMAIN formats : i < at[1]
    BY <2>1, <2>2 DEF IsList
  <2>4. \A n : Finished(n) <=> n \in wanted
    BY <2>3 DEF Finished
  <2>5. \A n : ~Started(n)
    <3>1. at[3] = 1
      BY <2>1, <2>2 DEF PlaceInv, Known, IsList
    <3> QED BY <3>1 DEF Started
  <2>6. \A n : Drawn(n) <=> n = DiagramFile /\ opts.diagram
    BY <1>1 DEF Drawn
  <2> HIDE DEF wanted
  <2>7. ToSet(written) = wanted
    BY <2>4 DEF FilesInv
  <2>8. wanted \subseteq FileNames /\ DiagramFile \in FileNames
    <3>1. ToSet(written) \subseteq FileNames
      BY DEF FilesInv, ToSet
    <3> QED BY <2>7, <3>1 DEF FileNames
  <2>9. \A n \in FileNames : files[n] = "new" <=> n \in wanted \/ (n = DiagramFile /\ opts.diagram)
    BY <1>1, <2>4, <2>5, <2>6 DEF FilesInv
  <2>10. {n \in FileNames : files[n] = "new"} = wanted \union IF opts.diagram THEN {DiagramFile} ELSE {}
    <3>1. CASE opts.diagram
      BY <2>8, <2>9, <3>1
    <3>2. CASE ~opts.diagram
      BY <2>8, <2>9, <3>2
    <3> QED BY <3>1, <3>2
  <2> QED BY <2>7, <2>10
<1>2. Cardinality(torn) <= IF step = "failed" THEN 1 ELSE 0
  <2>1. CASE step # "failed"
    <3>1. torn = {}
      BY <2>1 DEF FilesInv
    <3> HIDE DEF torn
    <3> QED BY <2>1, <3>1, FS_EmptySet
  <2>2. CASE step = "failed"
    <3>1. PICK x : torn \subseteq {x}
      BY <2>2 DEF FilesInv
    <3> HIDE DEF torn
    <3>2. torn = {} \/ torn = {x}
      BY <3>1
    <3>3. Cardinality(torn) \in {0, 1}
      BY <3>2, FS_EmptySet, FS_Singleton
    <3> QED BY <2>2, <3>3
  <2> QED BY <2>1, <2>2
<1> QED BY <1>1, <1>2 DEF FilesTellTheTruth

\* A run that reports success has written every file it was asked for, and
\* nothing else, and lists them; a run that fails leaves one torn file at
\* most, whatever formats and reports were asked for and wherever it failed.
THEOREM WritesWhatItSays == Spec => []FilesTellTheTruth
<1>1. Init => PlaceInv /\ FilesInv
  BY FilesInitially
<1>2. PlaceInv /\ FilesInv /\ [Next]_vars => (PlaceInv /\ FilesInv)'
  BY FilesKept
<1>3. PlaceInv /\ FilesInv => FilesTellTheTruth
  BY FilesTrue
<1> QED BY <1>1, <1>2, <1>3, PTL DEF Spec

-----------------------------------------------------------------------------
(* WHOIS.  The talkers come busiest first, and those asked about and those *)
(* still to be asked about are what was chosen of them.                    *)

\* A sequence whose neighbours descend descends.
LEMMA NeighboursDescend ==
  ASSUME NEW n \in Nat, NEW v, \A i \in 1..n : v[i] \in Int,
         \A i \in 1..(n - 1) : v[i] >= v[i + 1]
  PROVE  \A i, j \in 1..n : i < j => v[i] >= v[j]
<1> SUFFICES ASSUME NEW i \in 1..n PROVE \A j \in 1..n : i < j => v[i] >= v[j]
  OBVIOUS
<1> DEFINE B == {j \in 1..n : i < j /\ ~(v[i] >= v[j])}
<1>1. B = {}
  <2> SUFFICES ASSUME B # {} PROVE FALSE
    OBVIOUS
  <2>1. PICK j \in B : \A k \in B : j <= k
    <3>1. B \subseteq Nat
      OBVIOUS
    <3> HIDE DEF B
    <3> QED BY <3>1, LeastNumber
  <2>2. j \in 1..n /\ i < j /\ ~(v[i] >= v[j])
    BY <2>1
  <2>3. j - 1 \in 1..(n - 1) /\ j - 1 \in 1..n /\ (j - 1) + 1 = j
    BY <2>2
  <2>4. v[j - 1] >= v[j]
    BY <2>3
  <2>5. CASE j - 1 = i
    BY <2>2, <2>4, <2>5
  <2>6. CASE i < j - 1
    <3>1. j - 1 \notin B
      <4> HIDE DEF B
      <4>1. ~(j <= j - 1)
        BY <2>2
      <4> QED BY <2>1, <4>1
    <3>2. v[i] >= v[j - 1]
      BY <2>3, <2>6, <3>1
    <3>3. v[i] \in Int /\ v[j - 1] \in Int /\ v[j] \in Int
      BY <2>2, <2>3
    <3> QED BY <2>2, <2>4, <3>2, <3>3
  <2> QED BY <2>2, <2>3, <2>5, <2>6
<1> QED BY <1>1

\* The rows of a table come from the data, in descending order of its key.
LEMMA TablesDescend ==
  ASSUME NEW rows, IsFiniteSet(rows), NEW key, \A row \in rows : key[row] \in Int,
         NEW n \in Nat, NEW t \in Tables(rows, key, n)
  PROVE  t \in Seq(rows) /\ \A i, j \in DOMAIN t : i < j => key[t[i]] >= key[t[j]]
<1>1. PICK u \in SetToSeqs(rows) :
        /\ \A i \in 1..(Len(u) - 1) : key[u[i]] >= key[u[i + 1]]
        /\ t = SubSeq(u, 1, IF Len(u) > n THEN n ELSE Len(u))
  BY DEF Tables
<1>2. u \in [1..Cardinality(rows) -> rows] /\ Cardinality(rows) \in Nat
  BY FS_CardinalityType DEF SetToSeqs
<1>3. u \in Seq(rows) /\ Len(u) \in Nat /\ \A i \in 1..Len(u) : u[i] \in rows
  BY <1>2
<1> DEFINE v == [i \in 1..Len(u) |-> key[u[i]]]
           m == IF Len(u) > n THEN n ELSE Len(u)
<1>4. \A i, j \in 1..Len(u) : i < j => key[u[i]] >= key[u[j]]
  <2>1. \A i \in 1..Len(u) : v[i] \in Int
    BY <1>3
  <2>2. \A i \in 1..(Len(u) - 1) : v[i] >= v[i + 1]
    BY <1>1, <1>3
  <2>3. \A i, j \in 1..Len(u) : i < j => v[i] >= v[j]
    <3> HIDE DEF v
    <3> QED BY <1>3, <2>1, <2>2, NeighboursDescend
  <2> QED BY <2>3
<1>5. m \in Nat /\ m <= Len(u)
  BY <1>3
<1> HIDE DEF m
<1>6. t \in Seq(rows) /\ Len(t) = m /\ \A i \in 1..m : t[i] = u[i]
  BY <1>1, <1>3, <1>5 DEF m
<1>7. DOMAIN t = 1..m /\ 1..m \subseteq 1..Len(u)
  BY <1>3, <1>5, <1>6
<1> QED BY <1>4, <1>6, <1>7

\* The talkers are hosts of the capture, the busiest first.
Ranked(talkers, r) ==
  /\ talkers \in Seq(Talkers(r))
  /\ \A i, j \in DOMAIN talkers : i < j => talkers[i].bytes >= talkers[j].bytes

\* The talkers of every summary come by bytes and are hosts of the capture.
LEMMA TalkersRanked ==
  ASSUME NEW r \in Captures, NEW topN \in Int, NEW s \in Summaries(r, topN)
  PROVE  Ranked(s.talkers, r)
<1> DEFINE n == IF topN <= 0 THEN DefaultTop ELSE topN
           rows == Talkers(r)
           key == [row \in rows |-> row.bytes]
<1>1. s.talkers \in Tables(rows, key, n)
  <2> HIDE DEF n
  <2>1. PICK p \in Whole(ProtocolMix(r)), a \in Whole(AppProtoMix(r)), t \in ByBytes(Talkers(r), n),
             o \in ByCount(Ports(r), n), d \in ByCount(Names(r), n) :
               s = [protocols |-> p, apps |-> a, talkers |-> t, ports |-> o,
                    timeline |-> Timeline(r), dns |-> DnsSummary(r, d), tls |-> TlsSummary(r)]
    BY DEF Summaries, n
  <2>2. s.talkers = t
    BY <2>1
  <2> QED BY <2>2 DEF ByBytes
<1>2. n \in Nat
  BY LimitsAssumption
<1>3. IsFiniteSet(rows) /\ \A row \in rows : key[row] = row.bytes /\ row.bytes \in Nat
  <2> DEFINE row(ip) == [ip |-> ip, bytes |-> r.hosts[ip].bytes, private |-> r.hosts[ip].private]
  <2>1. IsFiniteSet(DOMAIN r.hosts)
    BY CapturesAssumption
  <2>2. rows = {row(ip) : ip \in DOMAIN r.hosts}
    BY DEF Talkers
  <2>3. IsFiniteSet({row(ip) : ip \in DOMAIN r.hosts})
    <3> DEFINE f == [ip \in DOMAIN r.hosts |-> row(ip)]
    <3>1. IsFiniteSet({f[ip] : ip \in DOMAIN f})
      <4> HIDE DEF row
      <4>1. DOMAIN f = DOMAIN r.hosts
        OBVIOUS
      <4>2. f \in Surjection(DOMAIN r.hosts, {f[ip] : ip \in DOMAIN f})
        BY <4>1 DEF Surjection
      <4> HIDE DEF f
      <4> QED BY <2>1, <4>2, FS_Surjection
    <3>2. {f[ip] : ip \in DOMAIN f} = {row(ip) : ip \in DOMAIN r.hosts}
      OBVIOUS
    <3> QED BY <3>1, <3>2
  <2>4. \A x \in rows : x.bytes \in Nat
    BY <2>2, CapturesAssumption
  <2>5. \A x \in rows : key[x] = x.bytes
    OBVIOUS
  <2> QED BY <2>2, <2>3, <2>4, <2>5
<1> DEFINE t == s.talkers
<1>4. t \in Seq(rows) /\ \A i, j \in DOMAIN t : i < j => key[t[i]] >= key[t[j]]
  <2>1. \A row \in rows : key[row] \in Int
    BY <1>3
  <2> HIDE DEF t, rows, key, n
  <2> QED BY <1>1, <1>2, <1>3, <2>1, TablesDescend DEF t
<1>5. \A i \in DOMAIN t : t[i] \in rows
  BY <1>4
<1> HIDE DEF rows, key
<1> QED BY <1>3, <1>4, <1>5 DEF Ranked, rows

\* The external talkers.
External(talkers) == {t \in ToSet(talkers) : ~t.private}

\* What is chosen of ranked talkers: external hosts, the busiest first, no
\* more than the limit, and all of them unless that limit is met.
LEMMA Chosen ==
  ASSUME NEW r, NEW talkers, Ranked(talkers, r), NEW limit \in Nat,
         \A ip \in DOMAIN r.hosts : r.hosts[ip].bytes \in Nat
  PROVE  LET a == Targets(talkers, limit) IN
         /\ a \in Seq(DOMAIN r.hosts) /\ Len(a) <= limit
         /\ ToSet(a) \subseteq {t.ip : t \in External(talkers)}
         /\ \A i, j \in DOMAIN a : i < j => r.hosts[a[i]].bytes >= r.hosts[a[j]].bytes
         /\ Len(a) < limit => {t.ip : t \in External(talkers)} \subseteq ToSet(a)
<1> DEFINE E == Those(talkers, External(talkers))
           F == FirstOf(E, limit)
           a == Targets(talkers, limit)
           R == Talkers(r)
           m == IF Len(E) > limit THEN limit ELSE Len(E)
<1>1. talkers \in Seq(R) /\ \A i, j \in DOMAIN talkers : i < j => talkers[i].bytes >= talkers[j].bytes
  BY DEF Ranked
<1>2. E \in Seq(R \cap External(talkers)) /\ ToSet(E) = ToSet(talkers) \cap External(talkers) /\ InOrderOf(E, talkers)
  BY <1>1, ThoseType, ThoseAre
<1>3. a = [i \in DOMAIN F |-> F[i].ip]
  BY DEF Targets, External
<1>4. F = SubSeq(E, 1, m)
  BY DEF FirstOf
<1>5. \A t \in R : t.ip \in DOMAIN r.hosts /\ t.bytes = r.hosts[t.ip].bytes
  BY DEF Talkers
<1> HIDE DEF E, F, a, R
<1>6. /\ Len(E) \in Nat /\ DOMAIN E = 1..Len(E) /\ m \in Nat /\ m <= Len(E) /\ m <= limit
      /\ \A i \in 1..Len(E) : E[i] \in R
  BY <1>2
<1>13. m < limit => m = Len(E)
  <2>1. Len(E) \in Nat
    BY <1>6
  <2>2. CASE Len(E) > limit
    BY <2>1, <2>2
  <2>3. CASE ~(Len(E) > limit)
    BY <2>3
  <2> QED BY <2>2, <2>3
<1> HIDE DEF m
<1>7. F \in Seq(R) /\ Len(F) = m /\ DOMAIN F = 1..m /\ \A i \in 1..m : F[i] = E[i]
  <2>1. E \in Seq(R)
    BY <1>6, <1>2
  <2> QED BY <1>4, <1>6, <2>1
<1>8. a = [i \in 1..m |-> E[i].ip]
  BY <1>3, <1>7
<1>9. a \in Seq(DOMAIN r.hosts) /\ Len(a) = m /\ DOMAIN a = 1..m /\ \A i \in 1..m : a[i] = E[i].ip /\ i \in DOMAIN E
  <2>1. \A i \in 1..m : E[i].ip \in DOMAIN r.hosts /\ i \in DOMAIN E
    BY <1>5, <1>6
  <2> QED BY <1>6, <1>8, <2>1
<1>10. ToSet(a) \subseteq {t.ip : t \in External(talkers)}
  <2>1. \A i \in DOMAIN E : E[i] \in External(talkers)
    BY <1>2 DEF ToSet
  <2> QED BY <1>9, <2>1 DEF ToSet
<1>11. ASSUME NEW i \in DOMAIN a, NEW j \in DOMAIN a, i < j
       PROVE  r.hosts[a[i]].bytes >= r.hosts[a[j]].bytes
  <2>1. i \in DOMAIN E /\ j \in DOMAIN E /\ a[i] = E[i].ip /\ a[j] = E[j].ip
    BY <1>9
  <2>2. PICK k \in DOMAIN talkers, l \in DOMAIN talkers : k < l /\ E[i] = talkers[k] /\ E[j] = talkers[l]
    BY <1>2, <1>11, <2>1 DEF InOrderOf
  <2>3. E[i].bytes >= E[j].bytes
    BY <1>1, <2>2
  <2>4. E[i] \in R /\ E[j] \in R
    BY <1>6, <2>1
  <2> QED BY <1>5, <2>1, <2>3, <2>4
<1>12. ASSUME Len(a) < limit PROVE {t.ip : t \in External(talkers)} \subseteq ToSet(a)
  <2>1. m = Len(E)
    BY <1>9, <1>12, <1>13
  <2>2. \A t \in External(talkers) : t \in ToSet(E)
    BY <1>2 DEF External
  <2>3. \A t \in ToSet(E) : t.ip \in ToSet(a)
    BY <1>6, <1>9, <2>1 DEF ToSet
  <2> QED BY <2>2, <2>3
<1> QED BY <1>6, <1>9, <1>10, <1>11, <1>12 DEF a

\* Moving the head of one sequence to the end of another.
LEMMA HeadMoves ==
  ASSUME NEW S, NEW s \in Seq(S), NEW t \in Seq(S), t # <<>>
  PROVE  /\ Append(s, Head(t)) \in Seq(S) /\ Tail(t) \in Seq(S)
         /\ Append(s, Head(t)) \o Tail(t) = s \o t
<1>1. Len(t) \in Nat /\ Len(t) >= 1
  BY EmptySeq, LenProperties
<1>2. Head(t) \in S /\ Tail(t) \in Seq(S) /\ t = <<Head(t)>> \o Tail(t)
  BY <1>1, HeadTailProperties
<1>3. <<Head(t)>> \in Seq(S) /\ Append(s, Head(t)) = s \o <<Head(t)>> /\ Append(s, Head(t)) \in Seq(S)
  BY <1>2, AppendIsConcat, AppendProperties
<1>4. (s \o <<Head(t)>>) \o Tail(t) = s \o (<<Head(t)>> \o Tail(t))
  BY <1>2, <1>3, ConcatAssociative
<1> QED BY <1>2, <1>3, <1>4

\* What a run sets out to look up.
Picked == IF Whois THEN Targets(summary.talkers, Limit) ELSE <<>>

Early == step \in {"start", "capture", "iocs", "detect", "geoip", "whois"}

LookupInv ==
  /\ result \in Captures /\ opts \in Commands
  /\ step \in {"iocs", "detect", "geoip", "whois", "lookup", "diagram", "render", "ok"} =>
       Ranked(summary.talkers, result)
  /\ Early => asked = <<>> /\ targets = <<>>
  /\ step = "lookup" =>
       asked \in Seq(DOMAIN result.hosts) /\ targets \in Seq(DOMAIN result.hosts) /\ asked \o targets = Picked
  /\ step \in {"diagram", "render", "ok"} => asked = Picked

\* However many the options ask for, the limit is a number.
LEMMA LimitIsNat == ASSUME opts \in Commands PROVE Limit \in Nat
BY CommandsAssumption, LimitsAssumption DEF Limit

\* Nobody has been asked when a run starts.
LEMMA LookupInitially == Init => LookupInv
BY DEF Init, LookupInv, Early

\* A step that has nothing to do with WHOIS.
LEMMA NothingAsked ==
  ASSUME LookupInv, UNCHANGED <<result, opts, summary, asked, targets>>,
         \/ step' = step \/ step' = "failed"
         \/ step \in {"start", "iocs", "detect", "geoip"} /\ step' \in {"capture", "detect", "geoip", "whois"}
            /\ (step = "start" <=> step' = "capture")
         \/ step \in {"diagram", "render"} /\ step' \in {"render", "ok"}
  PROVE  LookupInv'
<1>1. Picked' = Picked
  BY DEF Picked, Whois, Limit
<1> QED BY <1>1 DEF LookupInv, Early

\* Every step keeps what is asked within what was picked.
LEMMA LookupKept == LookupInv /\ [Next]_vars => LookupInv'
<1> SUFFICES ASSUME LookupInv, [Next]_vars PROVE LookupInv'
  OBVIOUS
<1>1. result \in Captures /\ opts \in Commands
  BY DEF LookupInv
<1>2. CASE Compute
  <2>1. /\ step = "capture" /\ step' = "iocs" /\ summary' \in Summaries(result, opts.topN)
        /\ UNCHANGED <<result, opts, asked, targets>>
    BY <1>2 DEF Compute, enrichVars
  <2>2. Ranked(summary'.talkers, result)
    BY <1>1, <2>1, TalkersRanked, CommandsAssumption
  <2>3. Ranked(summary.talkers, result)'
    BY <2>1, <2>2
  <2> QED BY <2>1, <2>3 DEF LookupInv, Early
<1>3. CASE RunWHOIS
  <2>1. /\ step = "whois" /\ step' = "lookup" /\ targets' = Picked
        /\ UNCHANGED <<result, opts, summary, asked>>
    BY <1>3 DEF RunWHOIS, Picked
  <2>2. asked = <<>> /\ Ranked(summary.talkers, result)
    BY <2>1 DEF LookupInv, Early
  <2>3. Picked \in Seq(DOMAIN result.hosts)
    <3>1. CASE Whois
      <4>1. Targets(summary.talkers, Limit) \in Seq(DOMAIN result.hosts)
        BY <1>1, <2>2, LimitIsNat, CapturesAssumption, Chosen
      <4> QED BY <3>1, <4>1 DEF Picked
    <3>2. CASE ~Whois
      BY <3>2 DEF Picked
    <3> QED BY <3>1, <3>2
  <2>4. Picked' = Picked /\ Ranked(summary.talkers, result)'
    BY <2>1, <2>2 DEF Picked, Whois, Limit
  <2>5. asked' \o targets' = Picked
    BY <2>1, <2>2, <2>3
  <2> QED BY <1>1, <2>1, <2>2, <2>3, <2>4, <2>5 DEF LookupInv, Early
<1>4. CASE LookUp
  <2>1. /\ step = "lookup" /\ step' = "lookup" /\ targets # <<>>
        /\ asked' = Append(asked, Head(targets)) /\ targets' = Tail(targets)
        /\ UNCHANGED <<result, opts, summary>>
    BY <1>4 DEF LookUp
  <2>2. asked \in Seq(DOMAIN result.hosts) /\ targets \in Seq(DOMAIN result.hosts) /\ asked \o targets = Picked
    BY <2>1 DEF LookupInv
  <2>3. /\ asked' \in Seq(DOMAIN result.hosts) /\ targets' \in Seq(DOMAIN result.hosts)
        /\ asked' \o targets' = asked \o targets
    <3> DEFINE S == DOMAIN result.hosts
    <3>1. asked \in Seq(S) /\ targets \in Seq(S) /\ targets # <<>>
      BY <2>1, <2>2
    <3> HIDE DEF S
    <3>2. /\ Append(asked, Head(targets)) \in Seq(S) /\ Tail(targets) \in Seq(S)
          /\ Append(asked, Head(targets)) \o Tail(targets) = asked \o targets
      BY <3>1, HeadMoves
    <3> QED BY <2>1, <3>2 DEF S
  <2>4. Picked' = Picked /\ Ranked(summary.talkers, result)'
    BY <2>1 DEF Picked, Whois, Limit, LookupInv
  <2> QED BY <1>1, <2>1, <2>2, <2>3, <2>4 DEF LookupInv, Early
<1>5. CASE BuildReport
  <2>1. /\ step = "lookup" /\ step' \in {"diagram", "render"} /\ targets = <<>>
        /\ UNCHANGED <<result, opts, summary, asked, targets>>
    BY <1>5 DEF BuildReport, enrichVars
  <2>2. asked = Picked
    BY <2>1 DEF LookupInv
  <2>3. Picked' = Picked /\ Ranked(summary.talkers, result)'
    BY <2>1 DEF Picked, Whois, Limit, LookupInv
  <2> QED BY <1>1, <2>1, <2>2, <2>3 DEF LookupInv, Early
<1>6. CASE CannotRead \/ Unknown \/ WriteReportFails
  <2>1. step' = "failed" /\ UNCHANGED <<result, opts, summary, asked, targets>>
    BY <1>6 DEF CannotRead, Unknown, WriteReportFails, Failed, enrichVars
  <2> QED BY <2>1, NothingAsked
<1>7. CASE Prepare \/ LoadIOCs \/ Sort \/ SetupGeoIP
  <2>1. /\ UNCHANGED <<result, opts, summary, asked, targets>>
        /\ step \in {"start", "iocs", "detect", "geoip"} /\ step' \in {"capture", "detect", "geoip", "whois"}
        /\ (step = "start" <=> step' = "capture")
    BY <1>7 DEF Prepare, LoadIOCs, Sort, SetupGeoIP, enrichVars
  <2> QED BY <2>1, NothingAsked
<1>8. CASE RunPass \/ WriteReport \/ NextFormat \/ UNCHANGED vars
  <2>1. UNCHANGED <<result, opts, summary, asked, targets, step>>
    BY <1>8 DEF RunPass, WriteReport, NextFormat, vars, enrichVars
  <2> QED BY <2>1, NothingAsked
<1>9. CASE WriteDiagram \/ Finish
  <2>1. /\ UNCHANGED <<result, opts, summary, asked, targets>>
        /\ step \in {"diagram", "render"} /\ step' \in {"render", "ok", "failed"}
    BY <1>9 DEF WriteDiagram, Finish, Failed, enrichVars
  <2> QED BY <2>1, NothingAsked
<1> QED BY <1>2, <1>3, <1>4, <1>5, <1>6, <1>7, <1>8, <1>9 DEF Next

\* What was picked is what the budget allows.
LEMMA BudgetKept == LookupInv => WhoisBudget
<1> SUFFICES ASSUME LookupInv, step \in {"diagram", "render", "ok"} PROVE WhoisBudget
  BY DEF WhoisBudget
<1>1. asked = Picked /\ Ranked(summary.talkers, result) /\ result \in Captures /\ opts \in Commands
  BY DEF LookupInv
<1>2. Limit \in Nat
  BY <1>1, LimitIsNat
<1>3. CASE Whois
  <2>1. asked = Targets(summary.talkers, Limit)
    BY <1>1, <1>3 DEF Picked
  <2>2. \A ip \in DOMAIN result.hosts : result.hosts[ip].bytes \in Nat
    BY <1>1, CapturesAssumption
  <2> HIDE DEF LookupInv
  <2>3. /\ Len(asked) <= Limit
        /\ ToSet(asked) \subseteq {t.ip : t \in External(summary.talkers)}
        /\ \A i, j \in DOMAIN asked : i < j => result.hosts[asked[i]].bytes >= result.hosts[asked[j]].bytes
        /\ Len(asked) < Limit => {t.ip : t \in External(summary.talkers)} \subseteq ToSet(asked)
    BY <1>1, <1>2, <2>1, <2>2, Chosen
  <2> QED BY <2>3 DEF WhoisBudget, External
<1>4. CASE ~Whois
  <2>1. asked = <<>>
    BY <1>1, <1>4 DEF Picked
  <2>2. Len(asked) = 0 /\ ToSet(asked) = {} /\ DOMAIN asked = {}
    BY <2>1 DEF ToSet
  <2> QED BY <1>2, <1>4, <2>2 DEF WhoisBudget
<1> QED BY <1>3, <1>4

\* Whatever the capture and however the table of talkers was cut and sorted,
\* those asked about are external, within the limit, the busiest first, and
\* all the external talkers unless the limit is met.
THEOREM AsksWithinBudget == Spec => []WhoisBudget
<1>1. Init => LookupInv
  BY LookupInitially
<1>2. LookupInv /\ [Next]_vars => LookupInv'
  BY LookupKept
<1>3. LookupInv => WhoisBudget
  BY BudgetKept
<1> QED BY <1>1, <1>2, <1>3, PTL DEF Spec

-----------------------------------------------------------------------------
(* The insertion sort *)

Insert(sorted, f) == InsertAt(sorted, Place(sorted, f), f)

\* h[k] is what the sort has made of the first k findings.
Inserts(h, s, n) == h = [k \in 0..n |-> IF k = 0 THEN <<>> ELSE Insert(h[k - 1], s[k])]

\* There is one such function only, also when there are more findings ...
LEMMA InsertsUnique ==
  ASSUME NEW s, NEW u, NEW n \in Nat, NEW m \in Nat, NEW g, NEW h, Inserts(g, s, n), Inserts(h, u, m),
         n <= m, \A k \in 1..n : s[k] = u[k]
  PROVE  g[n] = h[n]
<1> DEFINE T == {k \in 0..n : g[k] # h[k]}
<1>1. T = {}
  <2> SUFFICES ASSUME T # {} PROVE FALSE
    OBVIOUS
  <2>1. PICK k \in T : \A j \in T : k <= j
    <3>1. T \subseteq Nat
      OBVIOUS
    <3> HIDE DEF T
    <3> QED BY <3>1, LeastNumber
  <2>2. k \in 0..n /\ k \in 0..m /\ g[k] # h[k]
    BY <2>1
  <2>3. CASE k = 0
    BY <2>2, <2>3 DEF Inserts
  <2>4. CASE k # 0
    <3>1. k - 1 \in 0..n /\ k \in 1..n /\ ~(k <= k - 1)
      BY <2>2, <2>4
    <3>2. g[k - 1] = h[k - 1]
      BY <2>1, <3>1
    <3>3. g[k] = Insert(g[k - 1], s[k]) /\ h[k] = Insert(h[k - 1], u[k])
      BY <2>2, <2>4 DEF Inserts
    <3> QED BY <2>2, <3>1, <3>2, <3>3
  <2> QED BY <2>3, <2>4
<1>2. n \in 0..n
  OBVIOUS
<1> QED BY <1>1, <1>2

\* ... and there is one.
LEMMA InsertsExist == ASSUME NEW s, NEW n \in Nat PROVE \E h : Inserts(h, s, n)
<1> DEFINE T == {m \in Nat : ~ \E h : Inserts(h, s, m)}
<1> SUFFICES ASSUME T # {} PROVE FALSE
  OBVIOUS
<1>1. PICK m \in T : \A j \in T : m <= j
  <2>1. T \subseteq Nat
    OBVIOUS
  <2> HIDE DEF T
  <2> QED BY <2>1, LeastNumber
<1>2. CASE m = 0
  <2> DEFINE z == [k \in 0..0 |-> <<>>]
  <2>1. z = [k \in 0..0 |-> IF k = 0 THEN <<>> ELSE Insert(z[k - 1], s[k])]
    OBVIOUS
  <2>2. Inserts(z, s, 0)
    <3> HIDE DEF z
    <3> QED BY <2>1 DEF Inserts
  <2> QED BY <1>1, <1>2, <2>2
<1>3. CASE m # 0
  <2>1. m - 1 \in Nat /\ m - 1 \notin T /\ m \in Nat
    BY <1>1, <1>3
  <2>2. PICK h : Inserts(h, s, m - 1)
    BY <2>1
  <2> DEFINE g == [k \in 0..m |-> IF k = m THEN Insert(h[m - 1], s[m]) ELSE h[k]]
  <2>3. ASSUME NEW k \in 0..m
        PROVE  g[k] = IF k = 0 THEN <<>> ELSE Insert(g[k - 1], s[k])
    <3>1. k # 0 => k - 1 \in 0..m /\ k - 1 # m /\ g[k - 1] = h[k - 1]
      BY <2>1
    <3>2. CASE k = m
      <4>1. g[k] = Insert(h[m - 1], s[m])
        BY <3>2
      <4> HIDE DEF g
      <4> QED BY <1>3, <3>1, <3>2, <4>1
    <3>3. CASE k # m
      <4>1. k \in 0..(m - 1) /\ g[k] = h[k]
        BY <2>1, <3>3
      <4>2. h[k] = IF k = 0 THEN <<>> ELSE Insert(h[k - 1], s[k])
        BY <2>2, <4>1 DEF Inserts
      <4> HIDE DEF g
      <4> QED BY <3>1, <4>1, <4>2
    <3> QED BY <3>2, <3>3
  <2>4. g = [k \in 0..m |-> g[k]]
    OBVIOUS
  <2> HIDE DEF g
  <2>5. Inserts(g, s, m)
    BY <2>3, <2>4 DEF Inserts
  <2> QED BY <1>1, <2>5
<1> QED BY <1>2, <1>3

\* SortFindings is the last of the sequences its loop goes through.
LEMMA SortIs ==
  ASSUME NEW s, Len(s) \in Nat
  PROVE  \E h : Inserts(h, s, Len(s)) /\ SortFindings(s) = h[Len(s)]
<1> DEFINE n == Len(s)
           h == CHOOSE g : Inserts(g, s, n)
<1>1. Inserts(h, s, n)
  <2> HIDE DEF n
  <2>1. n \in Nat
    BY DEF n
  <2> QED BY <2>1, InsertsExist
<1>2. SortFindings(s) = h[n]
  BY DEF SortFindings, Inserts, Insert
<1> QED BY <1>1, <1>2

\* Nothing is sorted, and one finding more is inserted.
LEMMA SortEmpty == SortFindings(<<>>) = <<>>
<1>1. Len(<<>>) = 0 /\ 0 \in Nat /\ 0 \in 0..0
  OBVIOUS
<1>2. PICK h : Inserts(h, <<>>, 0) /\ SortFindings(<<>>) = h[0]
  BY <1>1, SortIs
<1> QED BY <1>1, <1>2 DEF Inserts

\* Sorting one finding more is one insertion more.
LEMMA SortAppend ==
  ASSUME NEW S, NEW s \in Seq(S), NEW f \in S
  PROVE  SortFindings(Append(s, f)) = Insert(SortFindings(s), f)
<1> DEFINE u == Append(s, f)
           n == Len(s)
<1>1. u \in Seq(S) /\ Len(u) = n + 1 /\ n \in Nat /\ u[n + 1] = f /\ \A k \in 1..n : u[k] = s[k]
  BY AppendProperties, LenProperties
<1> HIDE DEF u, n
<1>2. PICK m \in Nat : m = n + 1 /\ m \in 0..m /\ m - 1 = n /\ m # 0 /\ n <= m
  BY <1>1
<1>3. PICK h : Inserts(h, u, m) /\ SortFindings(u) = h[m]
  BY <1>1, <1>2, SortIs
<1>4. PICK g : Inserts(g, s, n) /\ SortFindings(s) = g[n]
  BY <1>1, SortIs DEF n
<1>5. h[m] = Insert(h[n], u[m])
  <2>1. h[m] = IF m = 0 THEN <<>> ELSE Insert(h[m - 1], u[m])
    BY <1>2, <1>3 DEF Inserts
  <2> QED BY <1>2, <2>1
<1>6. g[n] = h[n]
  BY <1>1, <1>2, <1>3, <1>4, InsertsUnique
<1> QED BY <1>1, <1>2, <1>3, <1>4, <1>5, <1>6 DEF u

\* All of G is at least as severe as f, all of L less so.
Divides(f, G, L) ==
  /\ f.severity \in Int
  /\ \A x \in G : x.severity \in Int /\ x.severity >= f.severity
  /\ \A x \in L : x.severity \in Int /\ x.severity < f.severity

\* A finding is inserted behind those that are as severe and before those
\* that are less so.
LEMMA InsertsBetween ==
  ASSUME NEW G, NEW L, NEW f, NEW A \in Seq(G), NEW B \in Seq(L), Divides(f, G, L)
  PROVE  Insert(A \o B, f) = (A \o <<f>>) \o B
<1> DEFINE S == G \cup L
           s == A \o B
           a == Len(A)
           b == Len(B)
           past(k) == /\ \A j \in k..Len(s) : MovesPast(f, s[j])
                      /\ k = 1 \/ ~MovesPast(f, s[k - 1])
<1>1. /\ A \in Seq(S) /\ B \in Seq(S) /\ a \in Nat /\ b \in Nat
      /\ \A j \in 1..a : A[j].severity >= f.severity /\ A[j].severity \in Int
      /\ \A j \in 1..b : B[j].severity < f.severity
      /\ f.severity \in Int
  BY DEF Divides
<1>2. /\ s \in Seq(S) /\ Len(s) = a + b
      /\ \A j \in 1..a : s[j] = A[j]
      /\ \A j \in (a + 1)..(a + b) : s[j] = B[j - a] /\ j - a \in 1..b
  BY <1>1
<1> HIDE DEF s, a, b
<1>3. \A j \in 1..a : ~MovesPast(f, s[j])
  <2> SUFFICES ASSUME NEW j \in 1..a PROVE ~(s[j].severity < f.severity)
    BY DEF MovesPast
  <2>1. s[j].severity >= f.severity /\ s[j].severity \in Int
    BY <1>1, <1>2
  <2> QED BY <1>1, <2>1
<1>4. \A j \in (a + 1)..(a + b) : MovesPast(f, s[j])
  BY <1>1, <1>2 DEF MovesPast
<1>5. a + 1 \in 1..(Len(s) + 1) /\ past(a + 1)
  <2>1. a + 1 = 1 \/ ~MovesPast(f, s[(a + 1) - 1])
    <3>1. (a + 1) - 1 = a /\ (a = 0 \/ a \in 1..a)
      BY <1>1
    <3> QED BY <1>3, <3>1
  <2> QED BY <1>1, <1>2, <1>4, <2>1
<1>6. \A k \in 1..(Len(s) + 1) : past(k) => k = a + 1
  <2> SUFFICES ASSUME NEW k \in 1..(Len(s) + 1), past(k) PROVE k = a + 1
    OBVIOUS
  <2>1. ~(k <= a)
    <3> SUFFICES ASSUME k <= a PROVE FALSE
      OBVIOUS
    <3>1. k \in k..Len(s) /\ k \in 1..a
      BY <1>1, <1>2
    <3> QED BY <1>3, <3>1
  <2>2. ~(k > a + 1)
    <3> SUFFICES ASSUME k > a + 1 PROVE FALSE
      OBVIOUS
    <3>1. k - 1 \in (a + 1)..(a + b) /\ k # 1
      BY <1>1, <1>2
    <3> QED BY <1>4, <3>1
  <2> QED BY <1>1, <2>1, <2>2
<1>7. Place(s, f) = a + 1
  BY <1>5, <1>6 DEF Place
<1>8. SubSeq(s, 1, a) = A
  BY <1>1, <1>2 DEF s, a
<1>9. SubSeq(s, a + 1, Len(s)) = B
  BY <1>1, <1>2 DEF s, a, b
<1>10. (a + 1) - 1 = a
  BY <1>1
<1> QED BY <1>7, <1>8, <1>9, <1>10 DEF Insert, InsertAt, s

\* So it comes last of those that are just as severe.
LEMMA InsertsLast ==
  ASSUME NEW G, NEW L, NEW f \in G, Divides(f, G, L),
         NEW P \in Seq(G), NEW O \in Seq(G), NEW B \in Seq(L)
  PROVE  Insert((P \o O) \o B, f) = (P \o (O \o <<f>>)) \o B
<1> DEFINE A == P \o O
           one == <<f>>
<1>1. A \in Seq(G)
  BY ConcatProperties
<1>2. one \in Seq(G)
  OBVIOUS
<1> HIDE DEF A, one
<1>3. Insert(A \o B, f) = (A \o one) \o B
  <2>1. Insert(A \o B, f) = (A \o <<f>>) \o B
    BY <1>1, InsertsBetween
  <2> QED BY <2>1 DEF one
<1>4. (P \o O) \o one = P \o (O \o one)
  BY <1>2, ConcatAssociative
<1> QED BY <1>3, <1>4 DEF A, one

\* The findings of one severity, in their order.
Rank(s, v) == Those(s, {f \in ToSet(s) : f.severity = v})

Ranks(s) == Rank(s, Critical) \o Rank(s, High) \o Rank(s, Medium) \o Rank(s, Low) \o Rank(s, Info)

\* What is taken out depends on what the sequence holds only.
LEMMA ThoseSame ==
  ASSUME NEW s, NEW T, NEW U, \A i \in DOMAIN s : s[i] \in T <=> s[i] \in U
  PROVE  Those(s, T) = Those(s, U)
<1> DEFINE p(V) == [i \in DOMAIN s |-> If(s[i] \in V, s[i])]
<1>1. \A i \in DOMAIN s : If(s[i] \in T, s[i]) = If(s[i] \in U, s[i])
  BY DEF If
<1>2. p(T) = p(U)
  BY <1>1
<1> QED BY <1>2 DEF Those

\* A rank holds findings of its severity.
LEMMA RankType ==
  ASSUME NEW S, NEW s \in Seq(S), NEW v
  PROVE  Rank(s, v) \in Seq({x \in S : x.severity = v})
<1> DEFINE T == {f \in ToSet(s) : f.severity = v}
           V == {x \in S : x.severity = v}
<1>1. Those(s, T) = Those(s, V)
  <2>1. \A i \in DOMAIN s : s[i] \in T <=> s[i] \in V
    BY DEF ToSet
  <2> HIDE DEF T, V
  <2> QED BY <2>1, ThoseSame
<1>2. Those(s, V) \in Seq(S \cap V)
  BY ThoseType
<1>3. S \cap V = V
  OBVIOUS
<1> QED BY <1>1, <1>2, <1>3 DEF Rank

\* A further finding joins the end of its own rank and no other.
LEMMA RankAppend ==
  ASSUME NEW S, NEW s \in Seq(S), NEW f \in S, NEW v
  PROVE  Rank(Append(s, f), v) = Rank(s, v) \o If(f.severity = v, f)
<1> DEFINE u == Append(s, f)
           V == {x \in S : x.severity = v}
<1>1. u \in Seq(S)
  OBVIOUS
<1>2. \A t \in Seq(S) : Rank(t, v) = Those(t, V)
  <2> SUFFICES ASSUME NEW t \in Seq(S) PROVE Rank(t, v) = Those(t, V)
    OBVIOUS
  <2> DEFINE T == {x \in ToSet(t) : x.severity = v}
  <2>1. \A i \in DOMAIN t : t[i] \in T <=> t[i] \in V
    BY DEF ToSet
  <2>2. Those(t, T) = Those(t, V)
    <3> HIDE DEF T, V
    <3> QED BY <2>1, ThoseSame
  <2> QED BY <2>2 DEF Rank
<1>3. If(f \in V, f) = If(f.severity = v, f)
  BY DEF If
<1>4. Those(u, V) = Those(s, V) \o If(f \in V, f)
  <2> HIDE DEF V
  <2> QED BY ThoseAppend
<1> HIDE DEF u, V
<1> QED BY <1>1, <1>2, <1>3, <1>4 DEF u

\* What holds of all findings of a severity holds of its rank.
LEMMA RankIn ==
  ASSUME NEW S, NEW s \in Seq(S), NEW v, NEW G, \A x \in S : x.severity = v => x \in G
  PROVE  Rank(s, v) \in Seq(G)
<1> DEFINE V == {x \in S : x.severity = v}
<1>1. Rank(s, v) \in Seq(V)
  BY RankType
<1>2. V \subseteq G
  OBVIOUS
<1> HIDE DEF V
<1> QED BY <1>1, <1>2

\* It does not matter in which order sequences are put together.
Regroups(S) == \A p, q, t \in Seq(S) : (p \o q) \o t = p \o (q \o t)

\* This is so of sequences over any set.
LEMMA Regroup == ASSUME NEW S PROVE Regroups(S)
BY ConcatAssociative DEF Regroups

\* One finding more takes its place in the ranks.
LEMMA RanksAppend ==
  ASSUME NEW S, \A x \in S : x.severity \in Severities, NEW s \in Seq(S), NEW f \in S
  PROVE  Insert(Ranks(s), f) = Ranks(Append(s, f))
<1> DEFINE u == Append(s, f)
           w == f.severity
           G == {x \in S : x.severity >= w}
           L == {x \in S : x.severity < w}
           one == <<f>>
           none == <<>>
<1>1. \A x \in S : x.severity \in 0..4
  BY DEF Severities, Info, Critical
<1>2. w \in 0..4 /\ f \in G /\ Divides(f, G, L)
  BY <1>1 DEF Divides
<1>3. \A v \in 0..4 : v >= w => Rank(s, v) \in Seq(G)
  <2> SUFFICES ASSUME NEW v \in 0..4, v >= w PROVE Rank(s, v) \in Seq(G)
    OBVIOUS
  <2>1. \A x \in S : x.severity = v => x \in G
    OBVIOUS
  <2> HIDE DEF G, L
  <2> QED BY <2>1, RankIn
<1>4. \A v \in 0..4 : v < w => Rank(s, v) \in Seq(L)
  <2> SUFFICES ASSUME NEW v \in 0..4, v < w PROVE Rank(s, v) \in Seq(L)
    OBVIOUS
  <2>1. \A x \in S : x.severity = v => x \in L
    OBVIOUS
  <2> HIDE DEF G, L
  <2> QED BY <2>1, RankIn
<1>5. \A v : Rank(u, v) = IF w = v THEN Rank(s, v) \o one ELSE Rank(s, v)
  <2> SUFFICES ASSUME NEW v PROVE Rank(u, v) = IF w = v THEN Rank(s, v) \o one ELSE Rank(s, v)
    OBVIOUS
  <2>1. Rank(u, v) = Rank(s, v) \o If(f.severity = v, f)
    BY RankAppend
  <2>2. CASE w = v
    BY <2>1, <2>2 DEF If
  <2>3. CASE w # v
    <3>1. Rank(u, v) = Rank(s, v) \o <<>>
      BY <2>1, <2>3 DEF If
    <3>2. Rank(s, v) \in Seq(S)
      BY RankIn
    <3> QED BY <2>3, <3>1, <3>2, ConcatEmptySeq
  <2> QED BY <2>2, <2>3
<1>6. Ranks(s) = Rank(s, 4) \o Rank(s, 3) \o Rank(s, 2) \o Rank(s, 1) \o Rank(s, 0)
      /\ Ranks(u) = Rank(u, 4) \o Rank(u, 3) \o Rank(u, 2) \o Rank(u, 1) \o Rank(u, 0)
  BY DEF Ranks, Critical, High, Medium, Low, Info
<1>7. Seq(G) \subseteq Seq(S) /\ Seq(L) \subseteq Seq(S) /\ none \in Seq(G) /\ none \in Seq(L) /\ one \in Seq(G)
  BY <1>2
<1> HIDE DEF u, w, G, L, one, none
<1>8. \A p \in Seq(G), o \in Seq(G), q \in Seq(L) :
        Insert((p \o o) \o q, f) = (p \o (o \o one)) \o q
  <2> SUFFICES ASSUME NEW p \in Seq(G), NEW o \in Seq(G), NEW q \in Seq(L)
               PROVE  Insert((p \o o) \o q, f) = (p \o (o \o one)) \o q
    OBVIOUS
  <2> QED BY <1>2, InsertsLast DEF one
<1>9. (\A p, q \in Seq(G) : p \o q \in Seq(G)) /\ (\A p, q \in Seq(L) : p \o q \in Seq(L))
  BY ConcatProperties
<1>10. \A p \in Seq(G) : none \o p = p /\ p \o none = p
  BY ConcatEmptySeq DEF none
<1>11. Regroups(S)
  BY Regroup
<1> DEFINE a == Rank(s, 4)
           b == Rank(s, 3)
           c == Rank(s, 2)
           d == Rank(s, 1)
           e == Rank(s, 0)
<1>14. /\ Rank(u, 4) = IF w = 4 THEN a \o one ELSE a
       /\ Rank(u, 3) = IF w = 3 THEN b \o one ELSE b
       /\ Rank(u, 2) = IF w = 2 THEN c \o one ELSE c
       /\ Rank(u, 1) = IF w = 1 THEN d \o one ELSE d
       /\ Rank(u, 0) = IF w = 0 THEN e \o one ELSE e
  BY <1>5
<1>15. a \in Seq(G)
  <2>1. 4 \in 0..4 /\ 4 >= w
    BY <1>2
  <2> QED BY <1>3, <2>1
<1>16. IF w <= 3 THEN b \in Seq(G) ELSE b \in Seq(L)
  <2>1. 3 \in 0..4 /\ IF w <= 3 THEN 3 >= w ELSE 3 < w
    BY <1>2
  <2> QED BY <1>3, <1>4, <2>1
<1>17. IF w <= 2 THEN c \in Seq(G) ELSE c \in Seq(L)
  <2>1. 2 \in 0..4 /\ IF w <= 2 THEN 2 >= w ELSE 2 < w
    BY <1>2
  <2> QED BY <1>3, <1>4, <2>1
<1>18. IF w <= 1 THEN d \in Seq(G) ELSE d \in Seq(L)
  <2>1. 1 \in 0..4 /\ IF w <= 1 THEN 1 >= w ELSE 1 < w
    BY <1>2
  <2> QED BY <1>3, <1>4, <2>1
<1>19. IF w <= 0 THEN e \in Seq(G) ELSE e \in Seq(L)
  <2>1. 0 \in 0..4 /\ IF w <= 0 THEN 0 >= w ELSE 0 < w
    BY <1>2
  <2> QED BY <1>3, <1>4, <2>1
<1> HIDE DEF a, b, c, d, e
<1>20. Ranks(s) = a \o b \o c \o d \o e
  BY <1>6 DEF a, b, c, d, e
<1>21. CASE w = 0
  <2> DEFINE p == a \o b \o c \o d
  <2>1. a \in Seq(G) /\ b \in Seq(G) /\ c \in Seq(G) /\ d \in Seq(G) /\ e \in Seq(G)
    BY <1>15, <1>16, <1>17, <1>18, <1>19, <1>21
  <2>2. p \in Seq(G)
    BY <1>9, <2>1
  <2>3. Ranks(s) = p \o e /\ Ranks(u) = p \o (e \o one)
    <3>1. Rank(u, 4) = a /\ Rank(u, 3) = b /\ Rank(u, 2) = c /\ Rank(u, 1) = d /\ Rank(u, 0) = e \o one
      BY <1>14, <1>21
    <3> QED BY <1>6, <1>20, <3>1
  <2> HIDE DEF p
  <2>4. Insert((p \o e) \o none, f) = (p \o (e \o one)) \o none
    BY <1>7, <1>8, <2>1, <2>2
  <2>5. (p \o e) \o none = p \o e
    BY <1>9, <1>10, <2>1, <2>2
  <2>6. (p \o (e \o one)) \o none = p \o (e \o one)
    BY <1>7, <1>9, <1>10, <2>1, <2>2
  <2> QED BY <2>3, <2>4, <2>5, <2>6 DEF u
<1>22. CASE w = 1
  <2> DEFINE p == a \o b \o c
  <2>1. a \in Seq(G) /\ b \in Seq(G) /\ c \in Seq(G) /\ d \in Seq(G) /\ e \in Seq(L)
    BY <1>15, <1>16, <1>17, <1>18, <1>19, <1>22
  <2>2. p \in Seq(G)
    BY <1>9, <2>1
  <2>3. Ranks(s) = (p \o d) \o e /\ Ranks(u) = (p \o (d \o one)) \o e
    <3>1. Rank(u, 4) = a /\ Rank(u, 3) = b /\ Rank(u, 2) = c /\ Rank(u, 1) = d \o one /\ Rank(u, 0) = e
      BY <1>14, <1>22
    <3> QED BY <1>6, <1>20, <3>1
  <2> HIDE DEF p
  <2>4. Insert((p \o d) \o e, f) = (p \o (d \o one)) \o e
    BY <1>8, <2>1, <2>2
  <2> QED BY <2>3, <2>4 DEF u
<1>23. CASE w = 2
  <2> DEFINE p == a \o b
             q == d \o e
             z == c \o one
  <2>1. a \in Seq(G) /\ b \in Seq(G) /\ c \in Seq(G) /\ d \in Seq(L) /\ e \in Seq(L)
    BY <1>15, <1>16, <1>17, <1>18, <1>19, <1>23
  <2>2. p \in Seq(G) /\ q \in Seq(L) /\ z \in Seq(G) /\ p \o c \in Seq(G) /\ p \o z \in Seq(G)
    BY <1>7, <1>9, <2>1
  <2>3. Ranks(s) = ((p \o c) \o d) \o e /\ Ranks(u) = ((p \o z) \o d) \o e
    <3>1. Rank(u, 4) = a /\ Rank(u, 3) = b /\ Rank(u, 2) = z /\ Rank(u, 1) = d /\ Rank(u, 0) = e
      BY <1>14, <1>23
    <3> HIDE DEF z
    <3> QED BY <1>6, <1>20, <3>1
  <2>4. Insert((p \o c) \o q, f) = (p \o z) \o q
    <3> HIDE DEF p, q
    <3> QED BY <1>8, <2>1, <2>2
  <2> HIDE DEF p, z
  <2>5. ((p \o c) \o d) \o e = (p \o c) \o q /\ ((p \o z) \o d) \o e = (p \o z) \o q
    <3>1. d \in Seq(S) /\ e \in Seq(S) /\ p \o c \in Seq(S) /\ p \o z \in Seq(S)
      BY <1>7, <2>1, <2>2
    <3> QED BY <1>11, <3>1, Zenon DEF Regroups
  <2> QED BY <2>3, <2>4, <2>5 DEF u
<1>24. CASE w = 3
  <2> DEFINE q == c \o d \o e
             z == b \o one
  <2>1. a \in Seq(G) /\ b \in Seq(G) /\ c \in Seq(L) /\ d \in Seq(L) /\ e \in Seq(L)
    BY <1>15, <1>16, <1>17, <1>18, <1>19, <1>24
  <2>2. q \in Seq(L) /\ z \in Seq(G) /\ a \o b \in Seq(G) /\ a \o z \in Seq(G)
    BY <1>7, <1>9, <2>1
  <2>3. Ranks(s) = (((a \o b) \o c) \o d) \o e /\ Ranks(u) = (((a \o z) \o c) \o d) \o e
    <3>1. Rank(u, 4) = a /\ Rank(u, 3) = z /\ Rank(u, 2) = c /\ Rank(u, 1) = d /\ Rank(u, 0) = e
      BY <1>14, <1>24
    <3> HIDE DEF z
    <3> QED BY <1>6, <1>20, <3>1
  <2>4. Insert((a \o b) \o q, f) = (a \o z) \o q
    <3> HIDE DEF q
    <3> QED BY <1>8, <2>1, <2>2
  <2> HIDE DEF z
  <2>5. (((a \o b) \o c) \o d) \o e = (a \o b) \o q /\ (((a \o z) \o c) \o d) \o e = (a \o z) \o q
    <3> SUFFICES ASSUME NEW x \in Seq(S) PROVE ((x \o c) \o d) \o e = x \o q
      BY <1>7, <2>2
    <3> DEFINE cd == c \o d
    <3>1. c \in Seq(S) /\ d \in Seq(S) /\ e \in Seq(S) /\ cd \in Seq(S)
      BY <1>7, <1>9, <2>1
    <3>2. (x \o c) \o d = x \o cd
      BY <1>11, <3>1, Zenon DEF Regroups
    <3> HIDE DEF cd
    <3>3. (x \o cd) \o e = x \o (cd \o e)
      BY <1>11, <3>1, Zenon DEF Regroups
    <3> QED BY <3>2, <3>3, Zenon DEF cd, q
  <2> QED BY <2>3, <2>4, <2>5 DEF u
<1>25. CASE w = 4
  <2> DEFINE q == b \o c \o d \o e
             z == a \o one
  <2>1. a \in Seq(G) /\ b \in Seq(L) /\ c \in Seq(L) /\ d \in Seq(L) /\ e \in Seq(L)
    BY <1>15, <1>16, <1>17, <1>18, <1>19, <1>25
  <2>2. q \in Seq(L) /\ z \in Seq(G)
    BY <1>7, <1>9, <2>1
  <2>3. Ranks(s) = (((a \o b) \o c) \o d) \o e /\ Ranks(u) = (((z \o b) \o c) \o d) \o e
    <3>1. Rank(u, 4) = z /\ Rank(u, 3) = b /\ Rank(u, 2) = c /\ Rank(u, 1) = d /\ Rank(u, 0) = e
      BY <1>14, <1>25
    <3> HIDE DEF z
    <3> QED BY <1>6, <1>20, <3>1
  <2>4. Insert((none \o a) \o q, f) = (none \o z) \o q
    <3> HIDE DEF q
    <3> QED BY <1>7, <1>8, <2>1, <2>2
  <2> HIDE DEF z
  <2>5. (((a \o b) \o c) \o d) \o e = a \o q /\ (((z \o b) \o c) \o d) \o e = z \o q
    <3> SUFFICES ASSUME NEW x \in Seq(S) PROVE (((x \o b) \o c) \o d) \o e = x \o q
      BY <1>7, <2>1, <2>2
    <3> DEFINE bc == b \o c
               bcd == bc \o d
    <3>1. b \in Seq(S) /\ c \in Seq(S) /\ d \in Seq(S) /\ e \in Seq(S) /\ bc \in Seq(S) /\ bcd \in Seq(S)
      BY <1>7, <1>9, <2>1
    <3>2. (x \o b) \o c = x \o bc
      BY <1>11, <3>1, Zenon DEF Regroups
    <3> HIDE DEF bc
    <3>3. (x \o bc) \o d = x \o bcd
      BY <1>11, <3>1, Zenon DEF Regroups
    <3> HIDE DEF bcd
    <3>4. (x \o bcd) \o e = x \o (bcd \o e)
      <4>1. bcd \in Seq(S) /\ e \in Seq(S)
        BY <3>1
      <4> QED BY <1>11, <4>1, Zenon DEF Regroups
    <3> QED BY <3>2, <3>3, <3>4, Zenon DEF bc, bcd, q
  <2>6. none \o a = a /\ none \o z = z
    BY <1>10, <2>1, <2>2
  <2> QED BY <2>3, <2>4, <2>5, <2>6 DEF u
<1>26. w \in 0..4 => w = 0 \/ w = 1 \/ w = 2 \/ w = 3 \/ w = 4
  OBVIOUS
<1> QED BY <1>2, <1>21, <1>22, <1>23, <1>24, <1>25, <1>26

\* The insertion sort ranks whatever it is given.
LEMMA SortRanks ==
  ASSUME NEW S, \A x \in S : x.severity \in Severities, NEW s \in Seq(S)
  PROVE  SortFindings(s) = Ranks(s)
<1> DEFINE B == {m \in Nat : \E u \in Seq(S) : Len(u) = m /\ SortFindings(u) # Ranks(u)}
<1>1. B = {}
  <2> SUFFICES ASSUME B # {} PROVE FALSE
    OBVIOUS
  <2>1. PICK m \in B : \A j \in B : m <= j
    <3>1. B \subseteq Nat
      OBVIOUS
    <3> HIDE DEF B
    <3> QED BY <3>1, LeastNumber
  <2>2. PICK u \in Seq(S) : Len(u) = m /\ SortFindings(u) # Ranks(u)
    BY <2>1
  <2>3. u # <<>>
    <3>1. \A v : Rank(<<>>, v) = <<>>
      BY ThoseEmpty DEF Rank
    <3>2. <<>> \o <<>> = <<>>
      OBVIOUS
    <3>3. Ranks(<<>>) = <<>>
      BY <3>1, <3>2 DEF Ranks
    <3> QED BY <2>2, <3>3, SortEmpty
  <2>4. PICK v \in Seq(S), f \in S : u = Append(v, f)
    BY <2>3, SequenceEmptyOrAppend
  <2>5. Len(v) \in Nat /\ m = Len(v) + 1
    BY <2>2, <2>4, AppendProperties, LenProperties
  <2>6. SortFindings(v) = Ranks(v)
    <3>1. Len(v) \notin B
      <4> HIDE DEF B
      <4>1. m \in Nat
        BY <2>5
      <4> QED BY <2>1, <2>5, <4>1
    <3> QED BY <2>5, <3>1
  <2>7. SortFindings(u) = Ranks(u)
    BY <2>4, <2>6, SortAppend, RanksAppend
  <2> QED BY <2>2, <2>7
<1>2. Len(s) \in Nat
  BY LenProperties
<1> QED BY <1>1, <1>2

-----------------------------------------------------------------------------
(* What the passes find *)

\* A finding of a kind in K as Finding makes it: of one of the severities, and
\* with a list of hosts.
Fine(x, K) == x.severity \in Severities /\ x.kind \in K /\ x.hosts \in Seq(ToSet(x.hosts))

\* A sequence of such findings.
Graded(s, K) == s \in Seq(ToSet(s)) /\ \A x \in ToSet(s) : Fine(x, K)

\* A sequence over graded findings is graded.
LEMMA GradedIn ==
  ASSUME NEW K, NEW S, \A x \in S : Fine(x, K), NEW s \in Seq(S)
  PROVE  Graded(s, K)
<1>1. ToSet(s) \subseteq S /\ \A i \in 1..Len(s) : s[i] \in ToSet(s)
  BY DEF ToSet
<1>2. s \in Seq(ToSet(s))
  <2> DEFINE T == ToSet(s)
  <2>1. Len(s) \in Nat /\ s = [i \in 1..Len(s) |-> s[i]]
    OBVIOUS
  <2>2. \A i \in 1..Len(s) : s[i] \in T
    BY <1>1
  <2> HIDE DEF T
  <2>3. s \in Seq(T)
    BY <2>1, <2>2
  <2> QED BY <2>3 DEF T
<1> QED BY <1>1, <1>2 DEF Graded

\* It may be of more kinds than it is.
LEMMA GradedWider ==
  ASSUME NEW K, NEW L, K \subseteq L, NEW s, Graded(s, K)
  PROVE  Graded(s, L)
BY DEF Graded, Fine

\* A finding reported or not makes one.
LEMMA GradedIf ==
  ASSUME NEW K, NEW x, Fine(x, K), NEW c
  PROVE  Graded(If(c, x), K) /\ Graded(<<x>>, K) /\ Graded(<<>>, K)
<1> DEFINE S == {x}
<1>1. <<x>> \in Seq(S) /\ <<>> \in Seq(S) /\ If(c, x) \in {<<x>>, <<>>}
  BY DEF If
<1>2. \A y \in S : Fine(y, K)
  OBVIOUS
<1> HIDE DEF S
<1>3. Graded(<<x>>, K) /\ Graded(<<>>, K)
  BY <1>1, <1>2, GradedIn
<1> QED BY <1>1, <1>3

\* Graded sequences stay graded when one follows the other.
LEMMA GradedConcat ==
  ASSUME NEW K, NEW s, NEW t, Graded(s, K), Graded(t, K)
  PROVE  Graded(s \o t, K)
<1> DEFINE S == ToSet(s) \cup ToSet(t)
<1>1. s \in Seq(S) /\ t \in Seq(S) /\ \A x \in S : Fine(x, K)
  BY DEF Graded
<1> HIDE DEF S
<1>2. s \o t \in Seq(S)
  BY <1>1, ConcatProperties
<1> QED BY <1>1, <1>2, GradedIn

\* And when any number of them do.
LEMMA GradedFlatten ==
  ASSUME NEW K, NEW ss, NEW n \in Nat, NEW Q, ss \in [1..n -> Q], \A i \in 1..n : Graded(ss[i], K)
  PROVE  Graded(FlattenSeq(ss), K)
<1> DEFINE S == UNION {ToSet(ss[i]) : i \in 1..n}
           W == Seq(S)
<1>1. \A x \in S : Fine(x, K)
  BY DEF Graded
<1>2. \A i \in 1..n : ss[i] \in W
  <2> SUFFICES ASSUME NEW i \in 1..n PROVE ss[i] \in W
    OBVIOUS
  <2> DEFINE T == ToSet(ss[i])
  <2>1. ss[i] \in Seq(T) /\ T \subseteq S
    BY DEF Graded
  <2> HIDE DEF T, S
  <2> QED BY <2>1
<1>3. ss \in Seq(W)
  <2> HIDE DEF W
  <2>1. ss = [i \in 1..n |-> ss[i]]
    OBVIOUS
  <2> QED BY <1>2, <2>1
<1>4. FlattenSeq(ss) \in Seq(S)
  <2> HIDE DEF S
  <2> QED BY <1>3, FlattenType
<1> HIDE DEF S
<1> QED BY <1>1, <1>4, GradedIn

\* What a pass may find.
GradedPass(P, K) == IsFiniteSet(P) /\ \A s \in P : Graded(s, K)

\* A pass finds graded findings, whatever order the map is ranged over in.
LEMMA GradedOrder ==
  ASSUME NEW K, NEW P, GradedPass(P, K), NEW o \in Orders(P)
  PROVE  Graded(o, K)
<1> DEFINE Q == P \ {<<>>}
           n == Cardinality(Q)
<1>1. IsFiniteSet(Q)
  BY FS_Subset DEF GradedPass
<1>2. n \in Nat
  <2> HIDE DEF Q
  <2> QED BY <1>1, FS_CardinalityType
<1>3. PICK ss \in SetToSeqs(Q) : o = FlattenSeq(ss)
  BY DEF Orders
<1>4. ss \in [1..n -> Q]
  <2> HIDE DEF Q
  <2> QED BY <1>3 DEF SetToSeqs
<1>5. \A s \in Q : Graded(s, K)
  BY DEF GradedPass
<1> HIDE DEF Q, n
<1>6. \A i \in 1..n : Graded(ss[i], K)
  BY <1>4, <1>5
<1> QED BY <1>2, <1>3, <1>4, <1>6, GradedFlatten

\* A finite map has finitely many values.
LEMMA ImageFinite ==
  ASSUME NEW W, IsFiniteSet(W), NEW g
  PROVE  IsFiniteSet({g[x] : x \in W})
<1> DEFINE f == [x \in W |-> g[x]]
           T == {g[x] : x \in W}
<1>1. f \in Surjection(W, T)
  BY DEF Surjection
<1> HIDE DEF f, T
<1>2. IsFiniteSet(T)
  BY <1>1, FS_Surjection
<1> QED BY <1>2 DEF T

\* A sequence has finitely many entries.
LEMMA ToSetFinite == ASSUME NEW s, s \in Seq(ToSet(s)) PROVE IsFiniteSet(ToSet(s))
<1> DEFINE W == 1..Len(s)
<1>1. Len(s) \in Nat /\ ToSet(s) = {s[i] : i \in W}
  BY DEF ToSet
<1>2. IsFiniteSet(W)
  BY <1>1, FS_Interval
<1> HIDE DEF W
<1>3. IsFiniteSet({s[i] : i \in W})
  BY <1>2, ImageFinite
<1> QED BY <1>1, <1>3

\* A pass over a finite map that finds graded sequences.
LEMMA PassOf ==
  ASSUME NEW K, NEW W, IsFiniteSet(W), NEW g, \A x \in W : Graded(g[x], K)
  PROVE  GradedPass({g[x] : x \in W}, K)
<1>1. IsFiniteSet({g[x] : x \in W})
  BY ImageFinite
<1> QED BY <1>1 DEF GradedPass

\* A pass over a finite map that finds one finding for each entry.
LEMMA EachOf ==
  ASSUME NEW K, NEW W, IsFiniteSet(W), NEW g, \A x \in W : Fine(g[x], K)
  PROVE  GradedPass(Each({g[x] : x \in W}), K)
<1> DEFINE h == [x \in W |-> <<g[x]>>]
<1>1. \A x \in W : Graded(h[x], K)
  BY GradedIf
<1>2. Each({g[x] : x \in W}) = {h[x] : x \in W}
  BY DEF Each
<1> HIDE DEF h
<1>3. GradedPass({h[x] : x \in W}, K)
  BY <1>1, PassOf
<1> QED BY <1>2, <1>3

\* The severities are five.
LEMMA SeveritiesAre ==
  Info \in Severities /\ Low \in Severities /\ Medium \in Severities /\ High \in Severities /\ Critical \in Severities
BY DEF Info, Low, Medium, High, Critical, Severities

\* The kinds of findings, but for the ARP burst.
Others ==
  {"vertical scan", "horizontal scan", "icmp sweep", "arp conflict", "credential", "legacy tls",
   "weak cipher", "expired", "not yet valid", "self-signed", "mismatch", "dns tunnel", "nxdomain flood",
   "exfiltration", "icmp channel", "large answer", "beacon", "malformed", "stealth scan", "ioc host",
   "ioc name", "exposed port"}

Bursts == {"arp burst"}
Kinds  == Others \union Bursts

\* A finding that names no host is fine ...
LEMMA FineNone ==
  ASSUME NEW K, NEW v \in Severities, NEW k \in K, NEW n
  PROVE  Fine(Finding(v, k, n, <<>>), K)
<1>1. <<>> \in Seq(ToSet(<<>>))
  OBVIOUS
<1> QED BY <1>1 DEF Fine, Finding

\* ... and so is one that names one ...
LEMMA FineOne ==
  ASSUME NEW K, NEW v \in Severities, NEW k \in K, NEW n, NEW a
  PROVE  Fine(Finding(v, k, n, <<a>>), K)
<1> DEFINE S == ToSet(<<a>>)
<1>1. a \in S
  BY DEF ToSet
<1> HIDE DEF S
<1>2. <<a>> \in Seq(S)
  BY <1>1
<1> QED BY <1>2 DEF Fine, Finding, S

\* ... or two.
LEMMA FineTwo ==
  ASSUME NEW K, NEW v \in Severities, NEW k \in K, NEW n, NEW a, NEW b
  PROVE  Fine(Finding(v, k, n, <<a, b>>), K)
<1> DEFINE S == ToSet(<<a, b>>)
<1>1. a \in S /\ b \in S
  <2>1. S = {<<a, b>>[i] : i \in 1..2}
    BY DEF ToSet
  <2> HIDE DEF S
  <2>2. <<a, b>>[1] = a /\ <<a, b>>[2] = b /\ 1 \in 1..2 /\ 2 \in 1..2
    OBVIOUS
  <2> QED BY <2>1, <2>2
<1> HIDE DEF S
<1>2. <<a, b>> \in Seq(S)
  BY <1>1
<1> QED BY <1>2 DEF Fine, Finding, S

\* The detectors that look at flows.
LEMMA FlowPasses ==
  ASSUME NEW r \in Captures
  PROVE  /\ GradedPass(VerticalScans(r), Others) /\ GradedPass(HorizontalScans(r), Others) /\ GradedPass(IcmpSweeps(r), Others)
         /\ GradedPass(Beacons(r), Others) /\ \A flag : GradedPass(StealthScans(r, flag), Others)
<1>1. \A W : W \subseteq r.flows => IsFiniteSet(W)
  BY CapturesAssumption, FS_Subset
<1>2. GradedPass(VerticalScans(r), Others)
  <2> DEFINE W == {g \in HalfOpen(r) : Cardinality({h.portB : h \in
                     {x \in HalfOpen(r) : x.a = g.a /\ x.b = g.b}}) >= Limits.vertical}
             find == [f \in W |-> Finding(High, "vertical scan", 0, <<f.a, f.b>>)]
  <2>1. IsFiniteSet(W)
    BY <1>1 DEF HalfOpen
  <2>2. VerticalScans(r) = Each({find[f] : f \in W})
    BY DEF VerticalScans
  <2>3. \A f \in W : Fine(find[f], Others)
    BY SeveritiesAre, FineNone, FineOne, FineTwo DEF Others, Bursts
  <2> HIDE DEF W, find
  <2> QED BY <2>1, <2>2, <2>3, EachOf
<1>3. GradedPass(HorizontalScans(r), Others)
  <2> DEFINE W == {g \in HalfOpen(r) : Cardinality({h.b : h \in
                     {x \in HalfOpen(r) : x.a = g.a /\ x.portB = g.portB}}) >= Limits.horizontal}
             find == [f \in W |-> Finding(High, "horizontal scan", f.portB, <<f.a>>)]
  <2>1. IsFiniteSet(W)
    BY <1>1 DEF HalfOpen
  <2>2. HorizontalScans(r) = Each({find[f] : f \in W})
    BY DEF HorizontalScans
  <2>3. \A f \in W : Fine(find[f], Others)
    BY SeveritiesAre, FineNone, FineOne, FineTwo DEF Others, Bursts
  <2> HIDE DEF W, find
  <2> QED BY <2>1, <2>2, <2>3, EachOf
<1>4. GradedPass(IcmpSweeps(r), Others)
  <2> DEFINE pings == {f \in r.flows : Icmp(f)}
             W == {g \in pings : Cardinality({h.b : h \in {x \in pings : x.a = g.a}}) >= Limits.sweep}
             find == [f \in W |-> Finding(Medium, "icmp sweep", 0, <<f.a>>)]
  <2>1. IsFiniteSet(W)
    BY <1>1
  <2>2. IcmpSweeps(r) = Each({find[f] : f \in W})
    BY DEF IcmpSweeps
  <2>3. \A f \in W : Fine(find[f], Others)
    BY SeveritiesAre, FineNone, FineOne, FineTwo DEF Others, Bursts
  <2> HIDE DEF W, find
  <2> QED BY <2>1, <2>2, <2>3, EachOf
<1>5. GradedPass(Beacons(r), Others)
  <2> DEFINE W == {g \in r.flows : Outbound(r, g) /\ Regular(g.gaps)}
             find == [f \in W |-> Finding(Medium, "beacon", f, <<f.a, f.b>>)]
  <2>1. IsFiniteSet(W)
    BY <1>1
  <2>2. Beacons(r) = Each({find[f] : f \in W})
    BY DEF Beacons
  <2>3. \A f \in W : Fine(find[f], Others)
    BY SeveritiesAre, FineNone, FineOne, FineTwo DEF Others, Bursts
  <2> HIDE DEF W, find
  <2> QED BY <2>1, <2>2, <2>3, EachOf
<1>6. ASSUME NEW flag PROVE GradedPass(StealthScans(r, flag), Others)
  <2> DEFINE W == {g \in r.flows : g.protocol = "TCP" /\ FlagOf(g) = flag}
             find == [f \in W |-> Finding(High, "stealth scan", flag, <<f.a>>)]
  <2>1. IsFiniteSet(W)
    BY <1>1
  <2>2. StealthScans(r, flag) = Each({find[f] : f \in W})
    BY DEF StealthScans
  <2>3. \A f \in W : Fine(find[f], Others)
    BY SeveritiesAre, FineNone, FineOne, FineTwo DEF Others, Bursts
  <2> HIDE DEF W, find
  <2> QED BY <2>1, <2>2, <2>3, EachOf
<1> QED BY <1>2, <1>3, <1>4, <1>5, <1>6

\* Those that look at ARP, at the senders of questions and at malformed packets.
LEMMA EventPasses ==
  ASSUME NEW r \in Captures
  PROVE  /\ GradedPass(ArpConflicts(r), Others) /\ GradedPass(ArpBursts(r), Bursts)
         /\ GradedPass(DnsTunnels(r), Others) /\ GradedPass(NxFloods(r), Others) /\ GradedPass(Malformed(r), Others)
<1>1. \A E, field : E \subseteq ToSet(r.arp) \/ E \subseteq ToSet(r.dns) => IsFiniteSet({field[e] : e \in E})
  <2>1. r.arp \in Seq(ToSet(r.arp)) /\ r.dns \in Seq(ToSet(r.dns))
    BY CapturesAssumption
  <2>2. IsFiniteSet(ToSet(r.arp)) /\ IsFiniteSet(ToSet(r.dns))
    BY <2>1, ToSetFinite
  <2>3. \A E : E \subseteq ToSet(r.arp) \/ E \subseteq ToSet(r.dns) => IsFiniteSet(E)
    BY <2>2, FS_Subset
  <2> QED BY <2>3, ImageFinite
<1>2. GradedPass(ArpConflicts(r), Others)
  <2> DEFINE macs(ip) == {e.mac : e \in {x \in Claims(r) : x.ip = ip}}
             E == {x \in Claims(r) : Cardinality(macs(x.ip)) >= 2}
             field == [e \in E |-> e.ip]
             W == {field[e] : e \in E}
             find == [ip \in W |-> Finding(High, "arp conflict", 0, <<ip>>)]
  <2>1. W = {e.ip : e \in E} /\ E \subseteq ToSet(r.arp)
    <3>1. W = {e.ip : e \in E} /\ E \subseteq Claims(r)
      BY Zenon
    <3>2. Claims(r) \subseteq ToSet(r.arp)
      BY DEF Claims
    <3> HIDE DEF E, W
    <3> QED BY <3>1, <3>2
  <2>2. IsFiniteSet(W)
    <3> HIDE DEF E, field
    <3> QED BY <1>1, <2>1
  <2>3. ArpConflicts(r) = Each({find[ip] : ip \in W})
    <3>1. ArpConflicts(r) = Each({Finding(High, "arp conflict", 0, <<ip>>) : ip \in {e.ip : e \in E}})
      BY DEF ArpConflicts
    <3> HIDE DEF E, field, W
    <3>2. {Finding(High, "arp conflict", 0, <<ip>>) : ip \in W} = {find[ip] : ip \in W}
      OBVIOUS
    <3> QED BY <2>1, <3>1, <3>2
  <2>4. \A ip \in W : Fine(find[ip], Others)
    <3> HIDE DEF W
    <3> QED BY SeveritiesAre, FineNone, FineOne, FineTwo DEF Others, Bursts
  <2> HIDE DEF W, find
  <2> QED BY <2>2, <2>3, <2>4, EachOf
<1>3. GradedPass(ArpBursts(r), Bursts)
  <2> DEFINE burst(ip) == MaxBurst(Announced(r, ip), Limits.burstWindow)
             E == {x \in ToSet(r.arp) : x.gratuitous /\ burst(x.ip) >= Limits.burst}
             field == [e \in E |-> e.ip]
             W == {field[e] : e \in E}
             find == [ip \in W |-> Finding(Medium, "arp burst", burst(ip), <<ip>>)]
  <2>1. W = {e.ip : e \in E} /\ E \subseteq ToSet(r.arp)
    BY Zenon
  <2>2. IsFiniteSet(W)
    <3> HIDE DEF E, field
    <3> QED BY <1>1, <2>1
  <2>3. ArpBursts(r) = Each({find[ip] : ip \in W})
    <3>1. ArpBursts(r) = Each({Finding(Medium, "arp burst", burst(ip), <<ip>>) : ip \in {e.ip : e \in E}})
      BY DEF ArpBursts
    <3> HIDE DEF E, field, W, burst
    <3>2. {Finding(Medium, "arp burst", burst(ip), <<ip>>) : ip \in W} = {find[ip] : ip \in W}
      OBVIOUS
    <3> QED BY <2>1, <3>1, <3>2
  <2>4. \A ip \in W : Fine(find[ip], Bursts)
    <3> HIDE DEF W, burst
    <3> QED BY SeveritiesAre, FineNone, FineOne, FineTwo DEF Others, Bursts
  <2> HIDE DEF W, find
  <2> QED BY <2>2, <2>3, <2>4, EachOf
<1>4. GradedPass(DnsTunnels(r), Others)
  <2> DEFINE E == {x \in ToSet(r.dns) : QueriesOf(r, x.src, LAMBDA y : y.encoded) >= Limits.tunnel}
             field == [e \in E |-> e.src]
             W == {field[e] : e \in E}
             find == [src \in W |-> Finding(High, "dns tunnel", 0, <<src>>)]
  <2>1. W = {e.src : e \in E} /\ E \subseteq ToSet(r.dns)
    BY Zenon
  <2>2. IsFiniteSet(W)
    <3> HIDE DEF E, field
    <3> QED BY <1>1, <2>1
  <2>3. DnsTunnels(r) = Each({find[src] : src \in W})
    <3>1. DnsTunnels(r) = Each({Finding(High, "dns tunnel", 0, <<src>>) : src \in {e.src : e \in E}})
      BY DEF DnsTunnels
    <3> HIDE DEF E, field, W
    <3>2. {Finding(High, "dns tunnel", 0, <<src>>) : src \in W} = {find[src] : src \in W}
      OBVIOUS
    <3> QED BY <2>1, <3>1, <3>2
  <2>4. \A src \in W : Fine(find[src], Others)
    <3> HIDE DEF W
    <3> QED BY SeveritiesAre, FineNone, FineOne, FineTwo DEF Others, Bursts
  <2> HIDE DEF W, find
  <2> QED BY <2>2, <2>3, <2>4, EachOf
<1>5. GradedPass(NxFloods(r), Others)
  <2> DEFINE E == {x \in ToSet(r.dns) : QueriesOf(r, x.src, LAMBDA y : y.nx) >= Limits.nxdomain}
             field == [e \in E |-> e.src]
             W == {field[e] : e \in E}
             find == [src \in W |-> Finding(Medium, "nxdomain flood", 0, <<src>>)]
  <2>1. W = {e.src : e \in E} /\ E \subseteq ToSet(r.dns)
    BY Zenon
  <2>2. IsFiniteSet(W)
    <3> HIDE DEF E, field
    <3> QED BY <1>1, <2>1
  <2>3. NxFloods(r) = Each({find[src] : src \in W})
    <3>1. NxFloods(r) = Each({Finding(Medium, "nxdomain flood", 0, <<src>>) : src \in {e.src : e \in E}})
      BY DEF NxFloods
    <3> HIDE DEF E, field, W
    <3>2. {Finding(Medium, "nxdomain flood", 0, <<src>>) : src \in W} = {find[src] : src \in W}
      OBVIOUS
    <3> QED BY <2>1, <3>1, <3>2
  <2>4. \A src \in W : Fine(find[src], Others)
    <3> HIDE DEF W
    <3> QED BY SeveritiesAre, FineNone, FineOne, FineTwo DEF Others, Bursts
  <2> HIDE DEF W, find
  <2> QED BY <2>2, <2>3, <2>4, EachOf
<1>6. GradedPass(Malformed(r), Others)
  <2> DEFINE W == ToSet(r.malformed)
             find == [reason \in W |-> Finding(Low, "malformed", reason, <<>>)]
  <2>1. IsFiniteSet(W)
    <3>1. r.malformed \in Seq(ToSet(r.malformed))
      BY CapturesAssumption
    <3> QED BY <3>1, ToSetFinite
  <2>2. Malformed(r) = Each({find[x] : x \in W})
    BY DEF Malformed
  <2>3. \A x \in W : Fine(find[x], Others)
    BY SeveritiesAre, FineNone, FineOne, FineTwo DEF Others, Bursts
  <2> HIDE DEF W, find
  <2> QED BY <2>1, <2>2, <2>3, EachOf
<1> QED BY <1>2, <1>3, <1>4, <1>5, <1>6

\* A pass over a slice makes one sequence.
LEMMA PassOfOne == ASSUME NEW K, NEW s, Graded(s, K) PROVE GradedPass({s}, K)
BY FS_Singleton DEF GradedPass

\* Those that look at flows more than once, and at ports.
LEMMA MixedPasses ==
  ASSUME NEW r \in Captures
  PROVE  GradedPass(WeakTls(r), Others) /\ GradedPass(Exfiltrations(r), Others) /\ GradedPass(ExposedPorts(r), Others)
<1>1. IsFiniteSet(r.flows) /\ IsFiniteSet(DOMAIN r.hosts)
  BY CapturesAssumption
<1>2. GradedPass(WeakTls(r), Others)
  <2> DEFINE W == {g \in r.flows : g.tls # {}}
             t(f) == CHOOSE t \in f.tls : TRUE
             found(f, condition, severity, kind) == If(condition, Finding(severity, kind, f, <<f.a, f.b>>))
             all(f) == found(f, t(f).version \in {"SSLv3", "TLS 1.0", "TLS 1.1"}, High, "legacy tls")
                         \o found(f, t(f).weak, Medium, "weak cipher")
                         \o found(f, "expired" \in t(f).cert, High, "expired")
                         \o found(f, "not yet valid" \in t(f).cert, Medium, "not yet valid")
                         \o found(f, "self-signed" \in t(f).cert, Medium, "self-signed")
                         \o found(f, "mismatch" \in t(f).cert, High, "mismatch")
             find == [f \in W |-> all(f)]
  <2>1. IsFiniteSet(W)
    BY <1>1, FS_Subset
  <2>2. WeakTls(r) = {find[f] : f \in W}
    BY DEF WeakTls
  <2>3. \A f, condition, severity, kind : 
            severity \in Severities /\ kind \in Others => Graded(found(f, condition, severity, kind), Others)
    <3> SUFFICES ASSUME NEW f, NEW condition, NEW severity \in Severities, NEW kind \in Others
                 PROVE  Graded(found(f, condition, severity, kind), Others)
      OBVIOUS
    <3> DEFINE x == Finding(severity, kind, f, <<f.a, f.b>>)
    <3>1. Fine(x, Others)
      BY FineTwo
    <3> HIDE DEF x
    <3> QED BY <3>1, GradedIf DEF x
  <2> HIDE DEF t, found
  <2>4. /\ "legacy tls" \in Others /\ "weak cipher" \in Others /\ "expired" \in Others
        /\ "not yet valid" \in Others /\ "self-signed" \in Others /\ "mismatch" \in Others
    BY DEF Others
  <2>5. \A f : Graded(all(f), Others)
    <3> SUFFICES ASSUME NEW f PROVE Graded(all(f), Others)
      OBVIOUS
    <3>1. /\ Graded(found(f, t(f).version \in {"SSLv3", "TLS 1.0", "TLS 1.1"}, High, "legacy tls"), Others)
          /\ Graded(found(f, t(f).weak, Medium, "weak cipher"), Others)
          /\ Graded(found(f, "expired" \in t(f).cert, High, "expired"), Others)
          /\ Graded(found(f, "not yet valid" \in t(f).cert, Medium, "not yet valid"), Others)
          /\ Graded(found(f, "self-signed" \in t(f).cert, Medium, "self-signed"), Others)
          /\ Graded(found(f, "mismatch" \in t(f).cert, High, "mismatch"), Others)
      BY <2>3, <2>4, SeveritiesAre
    <3> QED BY <3>1, GradedConcat
  <2>6. \A f \in W : Graded(find[f], Others)
    BY <2>5
  <2> HIDE DEF W, find
  <2> QED BY <2>1, <2>2, <2>6, PassOf
<1>3. GradedPass(Exfiltrations(r), Others)
  <2> DEFINE much(f) == /\ Outbound(r, f)
                        /\ f.bytesAB >= Limits.exfilBytes
                        /\ f.bytesAB >= Limits.exfilRatio * Max2(f.bytesBA, 1)
             ping(f) == Icmp(f) /\ f.bytesAB + f.bytesBA > Limits.icmpBytes * (f.packetsAB + f.packetsBA)
             x(f) == Finding(High, "exfiltration", f, <<f.a, f.b>>)
             y(f) == Finding(Medium, "icmp channel", f, <<f.a, f.b>>)
             W == r.flows
             find == [f \in W |-> If(much(f), x(f)) \o If(ping(f), y(f))]
  <2>1. Exfiltrations(r) = {find[f] : f \in W}
    BY DEF Exfiltrations
  <2>2. \A f : Fine(x(f), Others) /\ Fine(y(f), Others)
    BY SeveritiesAre, FineNone, FineOne, FineTwo DEF Others, Bursts
  <2> HIDE DEF much, ping, x, y
  <2>3. \A f : Graded(If(much(f), x(f)), Others) /\ Graded(If(ping(f), y(f)), Others)
    BY <2>2, GradedIf
  <2>4. \A f \in W : Graded(find[f], Others)
    BY <2>3, GradedConcat
  <2>5. IsFiniteSet(W)
    BY <1>1
  <2> HIDE DEF W, find
  <2> QED BY <2>1, <2>4, <2>5, PassOf
<1>4. GradedPass(ExposedPorts(r), Others)
  <2> DEFINE W == DOMAIN r.hosts
             risky(ip) == Those(r.hosts[ip].ports, DOMAIN RiskyPorts)
             all(ip) == [i \in DOMAIN risky(ip) |->
                           Finding(RiskyPorts[risky(ip)[i]], "exposed port", risky(ip)[i], <<ip>>)]
             find == [ip \in W |-> all(ip)]
  <2>1. ExposedPorts(r) = {find[ip] : ip \in W}
    BY DEF ExposedPorts
  <2>2. ASSUME NEW ip \in W PROVE Graded(all(ip), Others)
    <3> DEFINE P == ToSet(r.hosts[ip].ports)
               R == P \cap DOMAIN RiskyPorts
               q == risky(ip)
               x(p) == Finding(RiskyPorts[p], "exposed port", p, <<ip>>)
               F == {x(p) : p \in R}
    <3>1. r.hosts[ip].ports \in Seq(P)
      BY CapturesAssumption
    <3>2. q \in Seq(R)
      <4> HIDE DEF P
      <4> QED BY <3>1, ThoseType
    <3>3. \A p \in R : Fine(x(p), Others)
      <4> SUFFICES ASSUME NEW p \in R PROVE Fine(x(p), Others)
        OBVIOUS
      <4>1. RiskyPorts[p] \in Severities
        BY PortsAssumption
      <4>2. "exposed port" \in Others
        BY DEF Others
      <4> QED BY <4>1, <4>2, FineOne
    <3>4. all(ip) = [i \in DOMAIN q |-> x(q[i])]
      OBVIOUS
    <3> HIDE DEF q, R, x, all
    <3>5. DOMAIN q = 1..Len(q) /\ Len(q) \in Nat /\ \A i \in 1..Len(q) : q[i] \in R
      BY <3>2
    <3>6. \A z \in F : Fine(z, Others)
      BY <3>3
    <3>7. \A i \in 1..Len(q) : x(q[i]) \in F
      BY <3>5
    <3> HIDE DEF F
    <3>8. [i \in 1..Len(q) |-> x(q[i])] \in Seq(F)
      BY <3>5, <3>7
    <3> QED BY <3>4, <3>5, <3>6, <3>8, GradedIn
  <2>3. \A ip \in W : Graded(find[ip], Others)
    <3> HIDE DEF all
    <3> QED BY <2>2
  <2>4. IsFiniteSet(W)
    BY <1>1
  <2> HIDE DEF W, find
  <2> QED BY <2>1, <2>3, <2>4, PassOf
<1> QED BY <1>2, <1>3, <1>4

\* Those that go through a list.
LEMMA ListPasses ==
  ASSUME NEW r \in Captures, NEW I
  PROVE  /\ GradedPass(Credentials(r), Others) /\ GradedPass(LargeAnswers(r), Others)
         /\ GradedPass(IocHosts(r, I), Others) /\ GradedPass(IocNames(r, I), Others)
<1>1. r.dns \in Seq(ToSet(r.dns)) /\ r.creds \in Seq(ToSet(r.creds)) /\ IsFiniteSet(DOMAIN r.hosts)
  BY CapturesAssumption
<1>2. GradedPass(Credentials(r), Others)
  <2> DEFINE s(c) == IF c.password THEN Critical ELSE IF c.username THEN High ELSE Medium
             x(i) == Finding(s(r.creds[i]), "credential", i, <<r.creds[i].src, r.creds[i].dst>>)
             all == [i \in DOMAIN r.creds |-> x(i)]
             n == Len(r.creds)
             F == {x(i) : i \in 1..n}
  <2>1. Credentials(r) = {all}
    BY DEF Credentials
  <2>2. \A c : s(c) \in Severities
    BY SeveritiesAre
  <2>3. DOMAIN r.creds = 1..n /\ n \in Nat
    BY <1>1
  <2> HIDE DEF s, n
  <2>4. \A z \in F : Fine(z, Others)
    <3> SUFFICES ASSUME NEW i \in 1..n PROVE Fine(x(i), Others)
      OBVIOUS
    <3>1. "credential" \in Others
      BY DEF Others
    <3> QED BY <2>2, <3>1, FineTwo
  <2> HIDE DEF x
  <2>5. all \in Seq(F)
    BY <2>3
  <2> HIDE DEF F, all
  <2>6. Graded(all, Others)
    BY <2>4, <2>5, GradedIn
  <2> QED BY <2>1, <2>6, PassOfOne
<1>3. GradedPass(LargeAnswers(r), Others)
  <2> DEFINE x(i) == Finding(Medium, "large answer", i, <<r.dns[i].src, r.dns[i].dst>>)
             large(i) == r.dns[i].answer > Limits.answerBytes
             n == Len(r.dns)
             each == [i \in 1..n |-> If(large(i), x(i))]
             Q == {If(large(i), x(i)) : i \in 1..n}
  <2>1. DOMAIN r.dns = 1..n /\ n \in Nat
    BY <1>1
  <2>2. LargeAnswers(r) = {FlattenSeq(each)}
    BY <2>1 DEF LargeAnswers
  <2>3. \A i : Fine(x(i), Others)
    BY SeveritiesAre, FineNone, FineOne, FineTwo DEF Others, Bursts
  <2> HIDE DEF x, large, n
  <2>4. \A i \in 1..n : Graded(each[i], Others)
    BY <2>3, GradedIf
  <2>5. each \in [1..n -> Q]
    OBVIOUS
  <2> HIDE DEF each, Q
  <2>6. Graded(FlattenSeq(each), Others)
    BY <2>1, <2>4, <2>5, GradedFlatten
  <2> QED BY <2>2, <2>6, PassOfOne
<1>4. GradedPass(IocNames(r, I), Others)
  <2> DEFINE x(i) == Finding(Critical, "ioc name", r.dns[i].name, <<r.dns[i].src>>)
             first(i) == r.dns[i].name \in I /\ \A j \in 1..(i - 1) : r.dns[j].name # r.dns[i].name
             n == Len(r.dns)
             each == [i \in 1..n |-> If(first(i), x(i))]
             Q == {If(first(i), x(i)) : i \in 1..n}
  <2>1. DOMAIN r.dns = 1..n /\ n \in Nat
    BY <1>1
  <2>2. IocNames(r, I) = {FlattenSeq(each)}
    BY <2>1 DEF IocNames
  <2>3. \A i : Fine(x(i), Others)
    BY SeveritiesAre, FineNone, FineOne, FineTwo DEF Others, Bursts
  <2> HIDE DEF x, first, n
  <2>4. \A i \in 1..n : Graded(each[i], Others)
    BY <2>3, GradedIf
  <2>5. each \in [1..n -> Q]
    OBVIOUS
  <2> HIDE DEF each, Q
  <2>6. Graded(FlattenSeq(each), Others)
    BY <2>1, <2>4, <2>5, GradedFlatten
  <2> QED BY <2>2, <2>6, PassOfOne
<1>5. GradedPass(IocHosts(r, I), Others)
  <2> DEFINE W == DOMAIN r.hosts \intersect I
             find == [ip \in W |-> Finding(Critical, "ioc host", ip, <<ip>>)]
  <2>1. IsFiniteSet(W)
    BY <1>1, FS_Subset
  <2>2. IocHosts(r, I) = Each({find[ip] : ip \in W})
    BY DEF IocHosts
  <2>3. \A ip \in W : Fine(find[ip], Others)
    BY SeveritiesAre, FineNone, FineOne, FineTwo DEF Others, Bursts
  <2> HIDE DEF W, find
  <2> QED BY <2>1, <2>2, <2>3, EachOf
<1> QED BY <1>2, <1>3, <1>4, <1>5

\* All of them.
LEMMA PassesGraded ==
  ASSUME NEW r \in Captures, NEW I, NEW i \in 1..Len(Passes(r, I))
  PROVE  GradedPass(Passes(r, I)[i], IF i = 5 THEN Bursts ELSE Others)
<1> DEFINE P == Passes(r, I)
           Q == {VerticalScans(r), HorizontalScans(r), IcmpSweeps(r),
                 ArpConflicts(r), Credentials(r), WeakTls(r),
                 DnsTunnels(r), NxFloods(r), Exfiltrations(r), LargeAnswers(r), Beacons(r),
                 Malformed(r), StealthScans(r, "NULL"), StealthScans(r, "FIN"), StealthScans(r, "XMAS"),
                 IocHosts(r, I), IocNames(r, I), ExposedPorts(r)}
<1>1. Len(P) = 19 /\ P[5] = ArpBursts(r) /\ \A k \in 1..19 : k = 5 \/ P[k] \in Q
  BY DEF Passes
<1>2. \A p \in Q : GradedPass(p, Others)
  BY FlowPasses, EventPasses, MixedPasses, ListPasses
<1> HIDE DEF P, Q
<1>3. i \in 1..19
  BY <1>1 DEF P
<1>4. GradedPass(P[i], IF i = 5 THEN Bursts ELSE Others)
  BY <1>1, <1>2, <1>3, EventPasses
<1> QED BY <1>4 DEF P

-----------------------------------------------------------------------------
(* FindingsRanked *)

\* What has been found is graded, and sorted once all passes are made.
DetectInv ==
  /\ result \in Captures
  /\ pass \in Nat
  /\ Graded(detected, Kinds)
  /\ step \in {"start", "capture", "iocs", "detect"} => findings = <<>>
  /\ step \notin {"start", "capture", "iocs", "detect", "failed"} => findings = SortFindings(detected)
  /\ step = "failed" => findings \in {<<>>, SortFindings(detected)}

\* Nothing is found when a run starts.
LEMMA DetectInitially == Init => DetectInv
<1> SUFFICES ASSUME Init PROVE DetectInv
  OBVIOUS
<1>1. Graded(<<>>, Kinds)
  BY DEF Graded, ToSet
<1> QED BY <1>1 DEF Init, DetectInv

\* Every step keeps what has been found graded.
LEMMA DetectKept == DetectInv /\ [Next]_vars => DetectInv'
<1> SUFFICES ASSUME DetectInv, [Next]_vars PROVE DetectInv'
  OBVIOUS
<1>1. CASE RunPass
  <2> DEFINE P == Passes(result, iocs)
  <2>1. PICK order \in Orders(P[pass + 1]) : detected' = detected \o order
    BY <1>1 DEF RunPass
  <2>2. pass < Len(P) /\ pass' = pass + 1 /\ UNCHANGED <<step, result, findings>> /\ step = "detect"
    BY <1>1 DEF RunPass
  <2>3. pass + 1 \in 1..Len(P)
    <3>1. Len(P) = 19
      BY DEF Passes
    <3> HIDE DEF P
    <3> QED BY <2>2, <3>1 DEF DetectInv
  <2> DEFINE K == IF pass + 1 = 5 THEN Bursts ELSE Others
  <2>4. GradedPass(P[pass + 1], K)
    BY <2>3, PassesGraded DEF DetectInv
  <2>5. K \subseteq Kinds
    BY DEF Kinds
  <2> HIDE DEF P, K
  <2>6. Graded(order, Kinds)
    BY <2>1, <2>4, <2>5, GradedOrder, GradedWider
  <2>7. Graded(detected', Kinds)
    BY <2>1, <2>6, GradedConcat DEF DetectInv
  <2> QED BY <2>2, <2>7 DEF DetectInv
<1>2. CASE Sort
  BY <1>2 DEF Sort, DetectInv
<1>3. CASE CannotRead \/ Prepare \/ Compute \/ LoadIOCs
  BY <1>3 DEF CannotRead, Prepare, Compute, LoadIOCs, Failed, DetectInv
<1>4. CASE SetupGeoIP \/ RunWHOIS \/ LookUp \/ BuildReport
  BY <1>4 DEF SetupGeoIP, RunWHOIS, LookUp, BuildReport, DetectInv
<1>5. CASE WriteDiagram \/ Unknown \/ WriteReport \/ WriteReportFails \/ NextFormat \/ Finish
  BY <1>5 DEF WriteDiagram, Unknown, WriteReport, WriteReportFails, NextFormat, Finish, Failed, Rendering, DetectInv
<1>6. CASE UNCHANGED vars
  BY <1>6 DEF vars, DetectInv
<1> QED BY <1>1, <1>2, <1>3, <1>4, <1>5, <1>6 DEF Next

\* What is in findings once it is sorted.
LEMMA RankedWhenSorted == DetectInv /\ Sorted => findings = Ranks(detected)
<1> SUFFICES ASSUME DetectInv, Sorted PROVE findings = Ranks(detected)
  OBVIOUS
<1>1. findings = SortFindings(detected)
  BY DEF DetectInv, Sorted
<1> DEFINE S == ToSet(detected)
<1>2. detected \in Seq(S) /\ \A x \in S : x.severity \in Severities
  BY DEF DetectInv, Graded, Fine
<1> HIDE DEF S
<1>3. SortFindings(detected) = Ranks(detected)
  BY <1>2, SortRanks
<1> QED BY <1>1, <1>3

\* Whatever the detectors find, in whatever order: the report shows the most
\* severe first, loses none and keeps the order of those of one severity.
THEOREM RanksFindings == Spec => []FindingsRanked
<1>1. Init => DetectInv
  BY DetectInitially
<1>2. DetectInv /\ [Next]_vars => DetectInv'
  BY DetectKept
<1>3. DetectInv => FindingsRanked
  <2> SUFFICES ASSUME DetectInv, Sorted
               PROVE  LET rank(s) == Those(detected, {f \in ToSet(detected) : f.severity = s})
                      IN  findings = rank(Critical) \o rank(High) \o rank(Medium) \o rank(Low) \o rank(Info)
    BY DEF FindingsRanked
  <2>1. findings = Ranks(detected)
    BY RankedWhenSorted
  <2> QED BY <2>1 DEF Ranks, Rank
<1> QED BY <1>1, <1>2, <1>3, PTL DEF Spec

-----------------------------------------------------------------------------
(* The report *)

Redrawn(b, d) == [b EXCEPT !.diagram = d]

\* The report is one that Build makes, with or without the diagram, and what
\* it was made from stays as it was.
ReportInv ==
  Built => /\ step \in {"diagram", "render", "ok", "failed"}
           /\ findings = SortFindings(detected)
           /\ \E b \in Build(result, summary, findings, geo, whois), d \in BOOLEAN :
                report = Redrawn(b, d)

\* What every report is made of.
LEMMA BuildMakes ==
  ASSUME NEW r, NEW s, NEW F, NEW g, NEW w, NEW b \in Build(r, s, F, g, w)
  PROVE  \E h, t, f :
           b = [hosts |-> h, talkers |-> t, flows |-> f, findings |-> F,
                risk |-> RiskAssessment(F), summary |-> s, diagram |-> FALSE]
<1> DEFINE ips == Ascending(DOMAIN r.hosts)
           inventory == [i \in DOMAIN ips |->
             [HostView(r, ips[i], g, w) EXCEPT !.findings = FindingIds(F, ips[i])]]
           talkers == [i \in DOMAIN s.talkers |-> HostView(r, s.talkers[i].ip, g, w)]
<1>1. PICK flows \in Tables(r.flows, [f \in r.flows |-> Bytes(f)], Cardinality(r.flows)) :
        b = [hosts |-> inventory, talkers |-> talkers, flows |-> flows, findings |-> F,
             risk |-> RiskAssessment(F), summary |-> s, diagram |-> FALSE]
  BY DEF Build
<1> HIDE DEF inventory, talkers
<1> QED BY <1>1

\* A report is built before its diagram is drawn.
LEMMA BuildPlain ==
  ASSUME NEW r, NEW s, NEW F, NEW g, NEW w, NEW b \in Build(r, s, F, g, w)
  PROVE  b = Redrawn(b, FALSE)
<1>1. PICK h, t, f : b = [hosts |-> h, talkers |-> t, flows |-> f, findings |-> F,
                          risk |-> RiskAssessment(F), summary |-> s, diagram |-> FALSE]
  BY BuildMakes
<1>2. \A x : Redrawn(b, x) = [hosts |-> h, talkers |-> t, flows |-> f, findings |-> F,
                            risk |-> RiskAssessment(F), summary |-> s, diagram |-> x]
  BY <1>1 DEF Redrawn
<1> QED BY <1>1, <1>2

\* Drawing it again changes nothing else.
LEMMA BuildRedrawn ==
  ASSUME NEW r, NEW s, NEW F, NEW g, NEW w, NEW b \in Build(r, s, F, g, w), NEW c, NEW d
  PROVE  Redrawn(Redrawn(b, c), d) = Redrawn(b, d)
<1>1. PICK h, t, f : b = [hosts |-> h, talkers |-> t, flows |-> f, findings |-> F,
                          risk |-> RiskAssessment(F), summary |-> s, diagram |-> FALSE]
  BY BuildMakes
<1>2. \A x : Redrawn(b, x) = [hosts |-> h, talkers |-> t, flows |-> f, findings |-> F,
                            risk |-> RiskAssessment(F), summary |-> s, diagram |-> x]
  BY <1>1 DEF Redrawn
<1> DEFINE bc == Redrawn(b, c)
<1>3. bc = [hosts |-> h, talkers |-> t, flows |-> f, findings |-> F,
            risk |-> RiskAssessment(F), summary |-> s, diagram |-> c]
  BY <1>2
<1>4. Redrawn(bc, d) = [hosts |-> h, talkers |-> t, flows |-> f, findings |-> F,
                      risk |-> RiskAssessment(F), summary |-> s, diagram |-> d]
  <2> HIDE DEF bc
  <2> QED BY <1>3 DEF Redrawn
<1> QED BY <1>2, <1>4

\* The findings and the risk of a report are those it was built of.
LEMMA BuildFindings ==
  ASSUME NEW r, NEW s, NEW F, NEW g, NEW w, NEW b \in Build(r, s, F, g, w), NEW d
  PROVE  Redrawn(b, d).findings = F /\ Redrawn(b, d).risk = RiskAssessment(F)
<1> PICK h, t, f : b = [hosts |-> h, talkers |-> t, flows |-> f, findings |-> F,
                        risk |-> RiskAssessment(F), summary |-> s, diagram |-> FALSE]
  BY BuildMakes
<1> QED BY DEF Redrawn

\* A report is made once and then only gets its diagram.
LEMMA ReportKept == DetectInv /\ ReportInv /\ [Next]_vars => ReportInv'
<1> SUFFICES ASSUME DetectInv, ReportInv, [Next]_vars, Built' PROVE ReportInv'
  BY DEF ReportInv
<1>1. CASE BuildReport
  <2>1. /\ report' \in Build(result, summary, findings, geo, whois)
        /\ UNCHANGED <<result, summary, findings, geo, whois, detected>>
        /\ step = "lookup" /\ step' \in {"diagram", "render"}
    BY <1>1 DEF BuildReport, enrichVars
  <2>2. findings = SortFindings(detected)
    BY <2>1 DEF DetectInv
  <2>3. \A b \in Build(result, summary, findings, geo, whois) : b = Redrawn(b, FALSE)
    BY BuildPlain, Zenon
  <2>4. report' = Redrawn(report', FALSE)
    BY <2>1, <2>3
  <2> QED BY <2>1, <2>2, <2>4 DEF ReportInv
<1>2. CASE WriteDiagram
  <2>1. /\ UNCHANGED <<result, summary, findings, geo, whois, detected>>
        /\ report' \in {report, Redrawn(report, TRUE)}
        /\ step = "diagram" /\ step' \in {"render", "failed"}
    BY <1>2 DEF WriteDiagram, enrichVars, Failed, Redrawn
  <2>2. Built
    <3> SUFFICES ASSUME report = <<>> PROVE FALSE
      BY DEF Built
    <3>1. Redrawn(report, TRUE) = <<>>
      BY DEF Redrawn
    <3> QED BY <2>1, <3>1 DEF Built
  <2>3. PICK b \in Build(result, summary, findings, geo, whois), d \in BOOLEAN :
          report = Redrawn(b, d)
    BY <2>2 DEF ReportInv
  <2>4. findings = SortFindings(detected)
    BY <2>2 DEF ReportInv
  <2>5. report' = Redrawn(b, d) \/ report' = Redrawn(b, TRUE)
    <3>0. \A x, y : Redrawn(Redrawn(b, x), y) = Redrawn(b, y)
      BY <2>3, BuildRedrawn
    <3>1. Redrawn(Redrawn(b, d), TRUE) = Redrawn(b, TRUE)
      BY <3>0, Zenon
    <3> QED BY <2>1, <2>3, <3>1
  <2> QED BY <2>1, <2>4, <2>5 DEF ReportInv
<1>3. CASE CannotRead \/ Prepare \/ Compute \/ LoadIOCs \/ RunPass \/ Sort \/ SetupGeoIP \/ RunWHOIS \/ LookUp
  <2>1. report' = report /\ step \in {"start", "capture", "iocs", "detect", "geoip", "whois", "lookup"}
    BY <1>3 DEF CannotRead, Prepare, Compute, LoadIOCs, RunPass, Sort, SetupGeoIP, RunWHOIS, LookUp
  <2> QED BY <2>1 DEF ReportInv, Built
<1>4. CASE Unknown \/ WriteReport \/ WriteReportFails \/ NextFormat \/ Finish
  <2>1. /\ UNCHANGED <<result, summary, findings, geo, whois, detected, report>>
        /\ step' \in {step, "failed", "ok"}
    BY <1>4 DEF Unknown, WriteReport, WriteReportFails, NextFormat, Finish, Failed, Rendering, enrichVars
  <2> QED BY <2>1 DEF ReportInv, Built
<1>5. CASE UNCHANGED vars
  BY <1>5 DEF vars, enrichVars, ReportInv, Built
<1> QED BY <1>1, <1>2, <1>3, <1>4, <1>5 DEF Next

-----------------------------------------------------------------------------
(* RiskCoversFindings *)

\* A sequence over S of findings of at least severity v, the worst first.
Falls(s, v, S) ==
  /\ s \in Seq({x \in S : x.severity \in v..4})
  /\ \A i, j \in DOMAIN s : i < j => s[i].severity >= s[j].severity

\* What has the next severity may follow.
LEMMA FallsOn ==
  ASSUME NEW S, NEW v \in 0..3, NEW w, w = v + 1, NEW p, Falls(p, w, S),
         NEW q \in Seq({x \in S : x.severity = v})
  PROVE  Falls(p \o q, v, S)
<1> DEFINE U == {x \in S : x.severity \in w..4}
           Q == {x \in S : x.severity = v}
           T == {x \in S : x.severity \in v..4}
<1>1. p \in Seq(U) /\ q \in Seq(Q)
  BY DEF Falls
<1>2. \A i \in DOMAIN p : p[i].severity \in w..4 /\ p[i] \in T
  <2> SUFFICES ASSUME NEW i \in DOMAIN p PROVE p[i].severity \in w..4 /\ p[i] \in T
    OBVIOUS
  <2>1. p[i] \in U
    <3> HIDE DEF U
    <3> QED BY <1>1
  <2> QED BY <2>1
<1>3. \A i \in DOMAIN q : q[i].severity = v /\ q[i] \in T
  <2> SUFFICES ASSUME NEW i \in DOMAIN q PROVE q[i].severity = v /\ q[i] \in T
    OBVIOUS
  <2>1. q[i] \in Q
    <3> HIDE DEF Q
    <3> QED BY <1>1
  <2> QED BY <2>1
<1> DEFINE s == p \o q
<1>4. /\ Len(p) \in Nat /\ Len(q) \in Nat /\ DOMAIN p = 1..Len(p) /\ DOMAIN q = 1..Len(q)
      /\ p \in Seq(U \union Q) /\ q \in Seq(U \union Q)
  <2> HIDE DEF U, Q
  <2> QED BY <1>1
<1>5. /\ Len(s) = Len(p) + Len(q) /\ DOMAIN s = 1..(Len(p) + Len(q)) /\ s \in Seq(U \union Q)
      /\ \A i \in DOMAIN s : s[i] = IF i <= Len(p) THEN p[i] ELSE q[i - Len(p)]
  <2> HIDE DEF U, Q
  <2> QED BY <1>4
<1> HIDE DEF s, U, Q, T
<1>6. \A i \in DOMAIN s : IF i <= Len(p) THEN i \in DOMAIN p /\ s[i] = p[i]
                                         ELSE i - Len(p) \in DOMAIN q /\ s[i] = q[i - Len(p)]
  BY <1>4, <1>5
<1>7. s \in Seq(T)
  <2>1. \A i \in 1..Len(s) : s[i] \in T
    BY <1>2, <1>3, <1>4, <1>5, <1>6
  <2> QED BY <1>4, <1>5, <2>1
<1>8. ASSUME NEW i \in DOMAIN s, NEW j \in DOMAIN s, i < j PROVE s[i].severity >= s[j].severity
  <2>1. i \in Int /\ j \in Int
    BY <1>4, <1>5
  <2>2. CASE j <= Len(p)
    <3>1. i \in DOMAIN p /\ j \in DOMAIN p /\ s[i] = p[i] /\ s[j] = p[j]
      BY <1>4, <1>6, <1>8, <2>1, <2>2
    <3> QED BY <1>8, <3>1 DEF Falls
  <2>3. CASE j > Len(p)
    <3>1. s[j].severity = v
      BY <1>3, <1>4, <1>6, <2>1, <2>3
    <3>2. s[i].severity \in v..4
      BY <1>2, <1>3, <1>6
    <3> QED BY <3>1, <3>2
  <2> QED BY <1>4, <2>1, <2>2, <2>3
<1>9. p \o q \in Seq({x \in S : x.severity \in v..4})
  BY <1>7 DEF s, T
<1>10. \A i, j \in DOMAIN s : i < j => s[i].severity >= s[j].severity
  BY <1>8
<1> QED BY <1>9, <1>10 DEF Falls, s

\* The ranks come the worst first.
LEMMA RanksFall ==
  ASSUME NEW S, NEW s \in Seq(S) PROVE Falls(Ranks(s), 0, S)
<1>1. \A v : Rank(s, v) \in Seq({x \in S : x.severity = v})
  BY RankType
<1> DEFINE a == Rank(s, 4)
           b == a \o Rank(s, 3)
           c == b \o Rank(s, 2)
           d == c \o Rank(s, 1)
<1>2. Falls(a, 4, S)
  <2> DEFINE Q == {x \in S : x.severity = 4}
             T == {x \in S : x.severity \in 4..4}
  <2>1. Q = T /\ a \in Seq(Q)
    BY <1>1
  <2>2. \A i \in DOMAIN a : a[i].severity = 4
    <3> SUFFICES ASSUME NEW i \in DOMAIN a PROVE a[i].severity = 4
      OBVIOUS
    <3>1. a[i] \in Q
      <4> HIDE DEF a, Q
      <4> QED BY <2>1
    <3> QED BY <3>1
  <2> QED BY <2>1, <2>2 DEF Falls
<1> HIDE DEF a
<1>3. Falls(b, 3, S)
  <2>1. 3 \in 0..3 /\ 4 = 3 + 1
    OBVIOUS
  <2> QED BY <1>1, <1>2, <2>1, FallsOn
<1> HIDE DEF b
<1>4. Falls(c, 2, S)
  <2>1. 2 \in 0..3 /\ 3 = 2 + 1
    OBVIOUS
  <2> QED BY <1>1, <1>3, <2>1, FallsOn
<1> HIDE DEF c
<1>5. Falls(d, 1, S)
  <2>1. 1 \in 0..3 /\ 2 = 1 + 1
    OBVIOUS
  <2> QED BY <1>1, <1>4, <2>1, FallsOn
<1> HIDE DEF d
<1>6. Falls(d \o Rank(s, 0), 0, S)
  <2>1. 0 \in 0..3 /\ 1 = 0 + 1
    OBVIOUS
  <2> QED BY <1>1, <1>5, <2>1, FallsOn
<1> QED BY <1>6 DEF Ranks, Critical, High, Medium, Low, Info, a, b, c, d

\* A count is of something or it is zero.
LEMMA CountIs ==
  ASSUME NEW S, NEW F \in Seq(S), NEW v
  PROVE  Count(F, v) \in Nat /\ (Count(F, v) > 0 <=> \E i \in DOMAIN F : F[i].severity = v)
<1> DEFINE C == {i \in DOMAIN F : F[i].severity = v}
<1>1. DOMAIN F = 1..Len(F) /\ Len(F) \in Nat
  OBVIOUS
<1>2. IsFiniteSet(C)
  <2>1. C \subseteq 1..Len(F)
    BY <1>1
  <2>2. IsFiniteSet(1..Len(F))
    BY <1>1, FS_Interval
  <2> HIDE DEF C
  <2> QED BY <2>1, <2>2, FS_Subset
<1>3. Cardinality(C) \in Nat /\ (Cardinality(C) = 0 <=> C = {})
  <2> HIDE DEF C
  <2> QED BY <1>2, FS_CardinalityType, FS_EmptySet
<1> QED BY <1>3 DEF Count

\* What the first n entries of a sequence are.
LEMMA FirstOfIs ==
  ASSUME NEW S, NEW s \in Seq(S), NEW n \in Nat
  PROVE  \E m \in 0..Len(s) : FirstOf(s, n) = [i \in 1..m |-> s[i]]
<1> DEFINE m == IF Len(s) > n THEN n ELSE Len(s)
<1>1. m \in 0..Len(s) /\ Len(s) \in Nat
  OBVIOUS
<1> HIDE DEF m
<1>2. SubSeq(s, 1, m) = [i \in 1..m |-> s[i]]
  BY <1>1
<1>3. FirstOf(s, n) = SubSeq(s, 1, m)
  BY DEF FirstOf, m
<1> QED BY <1>1, <1>2, <1>3

\* What an overall risk is worth.
Worth(risk) ==
  [Minimal |-> Info, Low |-> Low, Medium |-> Medium, High |-> High, Critical |-> Critical][risk]

\* The overall risk is that of the worst finding or worse, and only that of
\* nothing when there is nothing.
LEMMA OverallCovers ==
  ASSUME NEW S, \A x \in S : x.severity \in 0..4, NEW F \in Seq(S)
  PROVE  /\ \A i \in DOMAIN F : F[i].severity <= Worth(Overall(F))
         /\ Worth(Overall(F)) = Info <=> \A i \in DOMAIN F : F[i].severity = Info
<1> DEFINE n == Count(F, 4)
           h == Count(F, 3)
           m == Count(F, 2)
           l == Count(F, 1)
           sum == 40 * n + 15 * h + 5 * m + l
           score == IF sum > 100 THEN 100 ELSE sum
           some(v) == \E i \in DOMAIN F : F[i].severity = v
<1>1. /\ n \in Nat /\ (n > 0 <=> some(4))
      /\ h \in Nat /\ (h > 0 <=> some(3))
      /\ m \in Nat /\ (m > 0 <=> some(2))
      /\ l \in Nat /\ (l > 0 <=> some(1))
  <2>1. \A v : Count(F, v) \in Nat /\ (Count(F, v) > 0 <=> some(v))
    BY CountIs
  <2> HIDE DEF some
  <2> QED BY <2>1
<1>2. \A i \in DOMAIN F : F[i].severity \in 0..4
  OBVIOUS
<1>3. Overall(F) = IF n > 0 \/ score >= 70 THEN "Critical"
                   ELSE IF h > 0 \/ score >= 40 THEN "High"
                   ELSE IF m > 0 \/ score >= 15 THEN "Medium"
                   ELSE IF score > 0 THEN "Low" ELSE "Minimal"
  BY DEF Overall, Score, Critical, High, Medium, Low
<1>4. /\ Worth("Critical") = 4 /\ Worth("High") = 3 /\ Worth("Medium") = 2
      /\ Worth("Low") = 1 /\ Worth("Minimal") = 0
  BY DEF Worth, Critical, High, Medium, Low, Info
<1>5. /\ score \in Nat
      /\ score > 0 <=> some(1) \/ some(2) \/ some(3) \/ some(4)
  <2> HIDE DEF n, h, m, l, some
  <2> QED BY <1>1
<1> HIDE DEF n, h, m, l, sum, score
<1>6. \/ Overall(F) = "Critical" /\ (some(4) \/ score > 0)
      \/ Overall(F) = "High" /\ ~some(4) /\ (some(3) \/ score > 0)
      \/ Overall(F) = "Medium" /\ ~some(4) /\ ~some(3) /\ (some(2) \/ score > 0)
      \/ Overall(F) = "Low" /\ ~some(4) /\ ~some(3) /\ ~some(2) /\ score > 0
      \/ Overall(F) = "Minimal" /\ ~some(4) /\ ~some(3) /\ ~some(2) /\ ~(score > 0)
  <2> HIDE DEF some
  <2> QED BY <1>1, <1>3, <1>5
<1>7. CASE Overall(F) = "Minimal" /\ ~some(4) /\ ~some(3) /\ ~some(2) /\ ~(score > 0)
  <2>1. \A i \in DOMAIN F : F[i].severity = 0
    BY <1>2, <1>5, <1>7
  <2> QED BY <1>4, <1>7, <2>1 DEF Info
<1>8. CASE Overall(F) # "Minimal" /\ (some(1) \/ some(2) \/ some(3) \/ some(4))
  <2>1. ~ \A i \in DOMAIN F : F[i].severity = Info
    BY <1>8 DEF Info
  <2>2. Worth(Overall(F)) # Info
    BY <1>4, <1>6, <1>8 DEF Info
  <2>3. \A i \in DOMAIN F : F[i].severity <= Worth(Overall(F))
    BY <1>2, <1>4, <1>6, <1>8
  <2> QED BY <2>1, <2>2, <2>3
<1> QED BY <1>5, <1>6, <1>7, <1>8

\* What an executive is shown are the first of the findings.
LEMMA TopIs ==
  ASSUME NEW S, NEW R, R.findings \in Seq(S), R.risk = RiskAssessment(R.findings)
  PROVE  \E m \in 0..Len(R.findings) :
           ExecutiveView(R).top = [i \in 1..m |-> R.findings[i]]
<1> DEFINE F == R.findings
           ids == [i \in DOMAIN F |-> i]
           T == R.risk.top
           Top == [i \in DOMAIN T |-> F[T[i]]]
<1>1. /\ F \in Seq(S) /\ Len(F) \in Nat
      /\ ids \in Seq(Nat) /\ Len(ids) = Len(F) /\ \A i \in DOMAIN F : ids[i] = i
  OBVIOUS
<1>2. T = FirstOf(ids, TopFindings)
  BY DEF RiskAssessment
<1> HIDE DEF ids
<1> HIDE DEF F, T
<1>3. PICK m \in 0..Len(F) : FirstOf(ids, TopFindings) = [i \in 1..m |-> ids[i]]
  <2>1. ids \in Seq(Nat) /\ TopFindings \in Nat
    BY <1>1, ReportAssumption
  <2>2. \E m \in 0..Len(ids) : FirstOf(ids, TopFindings) = [i \in 1..m |-> ids[i]]
    BY <2>1, FirstOfIs
  <2> QED BY <1>1, <2>2
<1>4. Top = [i \in 1..m |-> F[i]]
  <2>1. DOMAIN F = 1..Len(F)
    BY <1>1
  <2>2. DOMAIN T = 1..m /\ \A i \in 1..m : T[i] = i
    <3>1. T = [i \in 1..m |-> ids[i]]
      BY <1>2, <1>3
    <3>2. \A i \in 1..m : i \in DOMAIN F
      BY <1>1, <2>1
    <3> QED BY <1>1, <3>1, <3>2
  <2> QED BY <2>2
<1>5. ExecutiveView(R).top = Top
  <2> DEFINE external == Len(SelectSeq(R.hosts, LAMBDA x : ~x.private))
  <2>1. ExecutiveView(R) = [hosts |-> Len(R.hosts), external |-> external, risk |-> R.risk, top |-> Top]
    BY DEF ExecutiveView, T, F
  <2> HIDE DEF external, Top
  <2> QED BY <2>1
<1> HIDE DEF Top
<1> QED BY <1>3, <1>4, <1>5 DEF F

\* The risk of a report made of what has been found.
LEMMA RiskCovered == DetectInv /\ ReportInv => RiskCoversFindings
<1> SUFFICES ASSUME DetectInv, ReportInv, Built
             PROVE  LET risk == Worth(report.risk.overall)
                        top  == ExecutiveView(report).top
                    IN  /\ \A i \in DOMAIN report.findings : report.findings[i].severity <= risk
                        /\ risk = Info <=> \A i \in DOMAIN report.findings : report.findings[i].severity = Info
                        /\ \A i \in DOMAIN report.findings, j \in DOMAIN top :
                             i > Len(top) => report.findings[i].severity <= top[j].severity
  BY DEF RiskCoversFindings, Worth
<1> DEFINE S == ToSet(detected)
           F == report.findings
           top == ExecutiveView(report).top
<1>1. detected \in Seq(S) /\ \A x \in S : x.severity \in 0..4
  BY DEF DetectInv, Graded, Fine, Severities, Info, Critical
<1>2. findings = Ranks(detected)
  <2> HIDE DEF S
  <2>1. \A x \in S : x.severity \in Severities
    BY <1>1 DEF Severities, Info, Critical
  <2> QED BY <1>1, <2>1, SortRanks DEF ReportInv
<1>3. PICK b \in Build(result, summary, findings, geo, whois), d \in BOOLEAN : report = Redrawn(b, d)
  BY DEF ReportInv
<1>4. F = findings /\ report.risk = RiskAssessment(findings)
  BY <1>3, BuildFindings
<1> HIDE DEF S
<1>5. Falls(F, 0, S)
  BY <1>1, <1>2, <1>4, RanksFall
<1> HIDE DEF F
<1>6. /\ F \in Seq(S) /\ Len(F) \in Nat /\ DOMAIN F = 1..Len(F)
      /\ \A i, j \in DOMAIN F : i < j => F[i].severity >= F[j].severity
  <2> DEFINE T == {x \in S : x.severity \in 0..4}
  <2>1. T \subseteq S /\ F \in Seq(T)
    BY <1>5 DEF Falls
  <2> HIDE DEF T
  <2> QED BY <1>5, <2>1 DEF Falls
<1>7. report.risk.overall = Overall(F)
  BY <1>4 DEF RiskAssessment
<1>8. /\ \A i \in DOMAIN F : F[i].severity <= Worth(Overall(F))
      /\ Worth(Overall(F)) = Info <=> \A i \in DOMAIN F : F[i].severity = Info
  BY <1>1, <1>6, OverallCovers
<1>9. PICK m \in 0..Len(F) : top = [i \in 1..m |-> F[i]]
  <2>1. report.findings \in Seq(S) /\ report.risk = RiskAssessment(report.findings)
    BY <1>4, <1>6 DEF F
  <2> HIDE DEF top
  <2> QED BY <2>1, TopIs DEF F, top
<1> HIDE DEF top
<1>10. Len(top) = m /\ DOMAIN top = 1..m /\ \A j \in 1..m : top[j] = F[j]
  BY <1>6, <1>9
<1>11. \A i \in DOMAIN F, j \in DOMAIN top : i > Len(top) => F[i].severity <= top[j].severity
  <2> SUFFICES ASSUME NEW i \in DOMAIN F, NEW j \in DOMAIN top, i > Len(top)
               PROVE  F[i].severity <= top[j].severity
    OBVIOUS
  <2>1. j \in DOMAIN F /\ j < i /\ top[j] = F[j]
    BY <1>6, <1>9, <1>10
  <2>2. F[i].severity \in Int /\ F[j].severity \in Int
    BY <1>1, <1>6, <2>1
  <2> QED BY <1>6, <2>1, <2>2
<1> QED BY <1>7, <1>8, <1>11 DEF F, top

\* Whatever is found, no finding is worse than the overall risk, only a
\* capture without any above Info is called minimal, and what an executive is
\* shown is the worst of it.
THEOREM RiskCovers == Spec => []RiskCoversFindings
<1>1. Init => DetectInv /\ ReportInv
  <2>1. Init => ReportInv
    BY DEF Init, ReportInv, Built
  <2> QED BY <2>1, DetectInitially
<1>2. DetectInv /\ ReportInv /\ [Next]_vars => DetectInv' /\ ReportInv'
  BY DetectKept, ReportKept
<1>3. DetectInv /\ ReportInv => RiskCoversFindings
  BY RiskCovered
<1> QED BY <1>1, <1>2, <1>3, PTL DEF Spec

-----------------------------------------------------------------------------
(* Ascending and FlattenSeq *)

\* The numbers of a set come each once, the smallest first.
LEMMA AscendingIs ==
  ASSUME NEW S, IsFiniteSet(S), S \subseteq Int
  PROVE  /\ Ascending(S) \in [1..Cardinality(S) -> S] /\ Cardinality(S) \in Nat
         /\ \A x \in S : \E k \in 1..Cardinality(S) : Ascending(S)[k] = x
         /\ \A i, j \in 1..Cardinality(S) : i < j => Ascending(S)[i] < Ascending(S)[j]
<1> DEFINE n == Cardinality(S)
           up(x) == {y \in S : y <= x}
           R == [x \in S |-> Cardinality(up(x))]
<1>1. n \in Nat
  BY FS_CardinalityType
<1>2. \A x \in S : IsFiniteSet(up(x)) /\ R[x] \in 1..n
  <2> SUFFICES ASSUME NEW x \in S PROVE IsFiniteSet(up(x)) /\ R[x] \in 1..n
    OBVIOUS
  <2>1. up(x) \in SUBSET S /\ up(x) # {}
    OBVIOUS
  <2> DEFINE U == up(x)
  <2>2. R[x] = Cardinality(U)
    OBVIOUS
  <2> HIDE DEF U, R
  <2>3. IsFiniteSet(U) /\ Cardinality(U) <= n
    BY <2>1, FS_Subset DEF U
  <2>4. Cardinality(U) \in Nat /\ Cardinality(U) # 0
    BY <2>1, <2>3, FS_CardinalityType, FS_EmptySet DEF U
  <2> QED BY <1>1, <2>2, <2>3, <2>4 DEF U
<1>14. \A x \in S : R[x] \in Int
  <2> SUFFICES ASSUME NEW x \in S PROVE R[x] \in Int
    OBVIOUS
  <2>1. R[x] \in 1..n
    BY <1>2
  <2> HIDE DEF R, n
  <2> QED BY <1>1, <2>1
<1>3. \A x, y \in S : x < y => R[x] < R[y]
  <2> SUFFICES ASSUME NEW x \in S, NEW y \in S, x < y PROVE R[x] < R[y]
    OBVIOUS
  <2> DEFINE U == up(x)
             V == up(y)
  <2>0. x \in Int /\ y \in Int /\ S \subseteq Int
    OBVIOUS
  <2>1. U \in SUBSET V /\ U # V
    <3>1. \A z \in S : z <= x => z <= y
      BY <2>0
    <3>2. ~(y <= x) /\ y <= y
      BY <2>0
    <3> QED BY <3>1, <3>2, Zenon
  <2>2. R[x] = Cardinality(U) /\ R[y] = Cardinality(V) /\ IsFiniteSet(V)
    BY <1>2
  <2> HIDE DEF U, V, R
  <2>4. Cardinality(U) \in Int /\ Cardinality(V) \in Int
    BY <1>14, <2>2
  <2>3. Cardinality(U) <= Cardinality(V) /\ Cardinality(U) # Cardinality(V)
    BY <2>1, <2>2, FS_Subset
  <2> QED BY <2>2, <2>3, <2>4
<1>4. R \in Injection(S, 1..n)
  <2>1. R \in [S -> 1..n]
    BY <1>2
  <2> HIDE DEF R
  <2>2. \A x, y \in S : R[x] = R[y] => x = y
    <3> SUFFICES ASSUME NEW x \in S, NEW y \in S, R[x] = R[y] PROVE x = y
      OBVIOUS
    <3>1. R[x] \in Int /\ ~(R[x] < R[x])
      BY <1>14
    <3>2. ~(x < y) /\ ~(y < x)
      BY <1>3, <3>1
    <3>3. x \in Int /\ y \in Int
      OBVIOUS
    <3> QED BY <3>2, <3>3
  <2> QED BY <2>1, <2>2 DEF Injection, IsInjective
<1>5. R \in Surjection(S, 1..n)
  <2> HIDE DEF R
  <2>1. IsFiniteSet(1..n) /\ Cardinality(1..n) = n
    BY <1>1, FS_Interval
  <2> QED BY <1>4, <2>1, FS_Injection
<1>6. \A k \in 1..n : \E x \in S : R[x] = k
  <2> HIDE DEF R
  <2> QED BY <1>5 DEF Surjection
<1> DEFINE A == Ascending(S)
<1>7. \A k \in 1..n : A[k] = CHOOSE x \in S : R[x] = k
  BY DEF Ascending
<1>8. A = [k \in 1..n |-> A[k]]
  <2> DEFINE a(k) == CHOOSE x \in S : Cardinality(up(x)) = k
  <2>1. A = [k \in 1..n |-> a(k)]
    BY DEF Ascending
  <2> HIDE DEF A, a, n
  <2> QED BY <2>1
<1> HIDE DEF A, R
<1>9. \A k \in 1..n : A[k] \in S /\ R[A[k]] = k
  BY <1>6, <1>7
<1>10. A \in [1..n -> S]
  BY <1>8, <1>9
<1>11. \A x \in S : A[R[x]] = x
  BY <1>2, <1>4, <1>9 DEF Injection, IsInjective
<1>12. \A x \in S : \E k \in 1..n : A[k] = x
  BY <1>2, <1>11
<1>13. \A i, j \in 1..n : i < j => A[i] < A[j]
  <2> SUFFICES ASSUME NEW i \in 1..n, NEW j \in 1..n, i < j, ~(A[i] < A[j]) PROVE FALSE
    OBVIOUS
  <2>1. A[i] \in S /\ A[j] \in S /\ R[A[i]] = i /\ R[A[j]] = j
    BY <1>9
  <2>2. A[i] \in Int /\ A[j] \in Int /\ i \in Int /\ j \in Int
    <3>1. A[i] \in Int /\ A[j] \in Int
      BY <2>1
    <3> HIDE DEF n
    <3> QED BY <1>1, <3>1
  <2>3. A[i] = A[j] \/ A[j] < A[i]
    BY <2>2
  <2>4. i = j \/ j < i
    BY <1>3, <2>1, <2>3
  <2> QED BY <2>2, <2>4
<1> QED BY <1>1, <1>10, <1>12, <1>13 DEF A

\* What is in the sequences that are flattened is in the flat one.
LEMMA FlattenHolds ==
  ASSUME NEW S, NEW ss \in Seq(Seq(S))
  PROVE  \A x : x \in ToSet(FlattenSeq(ss)) <=> \E i \in DOMAIN ss : x \in ToSet(ss[i])
<1> DEFINE Good(u) == \A x : x \in ToSet(FlattenSeq(u)) <=> \E i \in DOMAIN u : x \in ToSet(u[i])
           W == Seq(S)
           B == {m \in Nat : \E u \in Seq(W) : Len(u) = m /\ ~Good(u)}
<1>1. B = {}
  <2> SUFFICES ASSUME B # {} PROVE FALSE
    OBVIOUS
  <2>1. PICK m \in B : \A j \in B : m <= j
    <3>1. B \subseteq Nat
      OBVIOUS
    <3> HIDE DEF B
    <3> QED BY <3>1, LeastNumber
  <2>2. PICK u \in Seq(W) : Len(u) = m /\ ~Good(u)
    BY <2>1
  <2>3. u # <<>>
    <3>1. Good(<<>>)
      BY FlattenEmpty DEF ToSet
    <3> HIDE DEF Good
    <3> QED BY <2>2, <3>1
  <2>4. PICK v \in Seq(W), q \in W : u = Append(v, q)
    BY <2>3, SequenceEmptyOrAppend
  <2>5. /\ Len(v) \in Nat /\ m = Len(v) + 1 /\ Len(u) = Len(v) + 1
        /\ \A i \in 1..Len(v) : u[i] = v[i]
        /\ u[Len(v) + 1] = q
    <3> HIDE DEF W
    <3> QED BY <2>2, <2>4, AppendProperties, LenProperties
  <2>6. Good(v)
    <3>1. Len(v) \notin B
      <4> HIDE DEF B
      <4> QED BY <2>1, <2>5
    <3> HIDE DEF Good
    <3> QED BY <2>4, <2>5, <3>1
  <2>7. FlattenSeq(u) = FlattenSeq(v) \o q /\ FlattenSeq(v) \in W
    BY <2>4, FlattenAppend, FlattenType
  <2>8. \A x : x \in ToSet(FlattenSeq(u)) <=> x \in ToSet(FlattenSeq(v)) \/ x \in ToSet(q)
    BY <2>4, <2>7, ToSetConcat
  <2>9. DOMAIN u = DOMAIN v \cup {Len(v) + 1} /\ DOMAIN v = 1..Len(v)
    <3>1. u \in Seq(W) /\ v \in Seq(W)
      BY <2>2, <2>4
    <3> HIDE DEF W
    <3>2. DOMAIN u = 1..Len(u) /\ DOMAIN v = 1..Len(v)
      BY <3>1
    <3> QED BY <2>5, <3>2
  <2>10. \A x : (\E i \in DOMAIN u : x \in ToSet(u[i])) <=> (\E i \in DOMAIN v : x \in ToSet(v[i])) \/ x \in ToSet(q)
    BY <2>5, <2>9
  <2> QED BY <2>2, <2>6, <2>8, <2>10
<1>2. Len(ss) \in Nat /\ ss \in Seq(W)
  <2>1. ss \in Seq(W)
    OBVIOUS
  <2> HIDE DEF W
  <2> QED BY <2>1
<1> HIDE DEF Good, W
<1>3. Good(ss)
  BY <1>1, <1>2
<1> QED BY <1>3 DEF Good

-----------------------------------------------------------------------------
(* FlaggedAgree *)

\* A host has the numbers of the findings that name it.
LEMMA FindingIdsAre ==
  ASSUME NEW K, NEW F, Graded(F, K), NEW ip
  PROVE  /\ ToSet(FindingIds(F, ip)) = {i \in DOMAIN F : ip \in ToSet(F[i].hosts)}
         /\ FindingIds(F, ip) \in Seq(Nat)
<1> DEFINE named(i) == Those(F[i].hosts, {ip})
           ss == [i \in DOMAIN F |-> [k \in DOMAIN named(i) |-> i]]
           W == Seq(Nat)
<1>1. Len(F) \in Nat /\ DOMAIN F = 1..Len(F) /\ \A i \in DOMAIN F : F[i] \in ToSet(F)
  BY DEF Graded, ToSet
<1>2. ASSUME NEW i \in DOMAIN F
      PROVE  named(i) \in Seq({ip}) /\ ToSet(named(i)) = ToSet(F[i].hosts) \cap {ip}
  <2> DEFINE H == ToSet(F[i].hosts)
  <2>1. F[i].hosts \in Seq(H)
    BY <1>1 DEF Graded, Fine
  <2> HIDE DEF H
  <2>2. named(i) \in Seq(H \cap {ip})
    BY <2>1, ThoseType
  <2>3. ToSet(named(i)) = ToSet(F[i].hosts) \cap {ip}
    BY <2>1, ThoseAre
  <2>4. named(i) \in Seq({ip})
    <3> DEFINE V == H \cap {ip}
               Z == {ip}
    <3>1. V \subseteq Z /\ named(i) \in Seq(V)
      BY <2>2
    <3> HIDE DEF V, Z
    <3>2. named(i) \in Seq(Z)
      BY <3>1
    <3> QED BY <3>2 DEF Z
  <2> QED BY <2>3, <2>4
<1>3. ASSUME NEW i \in DOMAIN F
      PROVE  ss[i] \in W /\ (\A x : x \in ToSet(ss[i]) <=> x = i /\ ip \in ToSet(F[i].hosts))
  <2> DEFINE t == named(i)
  <2>1. t \in Seq({ip}) /\ ToSet(t) = ToSet(F[i].hosts) \cap {ip}
    BY <1>2
  <2>2. ss[i] = [k \in DOMAIN t |-> i] /\ i \in Nat
    BY <1>1
  <2> HIDE DEF t, ss, named
  <2>3. Len(t) \in Nat /\ DOMAIN t = 1..Len(t)
    BY <2>1
  <2>4. ss[i] \in W
    BY <2>2, <2>3
  <2>5. DOMAIN t # {} <=> ip \in ToSet(F[i].hosts)
    <3>1. \A k \in DOMAIN t : t[k] \in ToSet(t)
      BY DEF ToSet
    <3>2. \A x \in ToSet(t) : \E k \in DOMAIN t : TRUE
      BY DEF ToSet
    <3> QED BY <2>1, <3>1, <3>2
  <2>6. \A x : x \in ToSet(ss[i]) <=> x = i /\ DOMAIN t # {}
    BY <2>2 DEF ToSet
  <2> QED BY <2>4, <2>5, <2>6
<1>4. DOMAIN ss = DOMAIN F /\ ss = [i \in 1..Len(F) |-> ss[i]]
  BY <1>1
<1> HIDE DEF ss, named
<1>5. ss \in Seq(Seq(Nat))
  <2>1. \A i \in 1..Len(F) : ss[i] \in W
    BY <1>1, <1>3
  <2> HIDE DEF W
  <2>2. ss \in Seq(W)
    BY <1>1, <1>4, <2>1
  <2> QED BY <2>2 DEF W
<1>6. \A x : x \in ToSet(FlattenSeq(ss)) <=> \E i \in DOMAIN ss : x \in ToSet(ss[i])
  BY <1>5, FlattenHolds
<1>7. FlattenSeq(ss) \in Seq(Nat)
  BY <1>5, FlattenType
<1>8. FindingIds(F, ip) = FlattenSeq(ss)
  BY DEF FindingIds, ss, named
<1>9. ToSet(FlattenSeq(ss)) = {i \in DOMAIN F : ip \in ToSet(F[i].hosts)}
  <2> DEFINE R == {i \in DOMAIN F : ip \in ToSet(F[i].hosts)}
             T == ToSet(FlattenSeq(ss))
  <2>1. \A x : x \in R <=> \E i \in DOMAIN F : x = i /\ ip \in ToSet(F[i].hosts)
    OBVIOUS
  <2>2. \A x : x \in T <=> \E i \in DOMAIN F : x \in ToSet(ss[i])
    BY <1>4, <1>6
  <2>3. \A i \in DOMAIN F : \A x : x \in ToSet(ss[i]) <=> x = i /\ ip \in ToSet(F[i].hosts)
    BY <1>3
  <2> HIDE DEF R, T
  <2>4. T = R
    BY <2>1, <2>2, <2>3
  <2> QED BY <2>4 DEF R, T
<1> QED BY <1>7, <1>8, <1>9

\* The hosts of a report.
Inventory(r, F, g, w) ==
  LET ips == Ascending(DOMAIN r.hosts)
  IN  [i \in DOMAIN ips |-> [HostView(r, ips[i], g, w) EXCEPT !.findings = FindingIds(F, ips[i])]]

\* A report lists these hosts, and all flows of the capture.
LEMMA BuildTables ==
  ASSUME NEW r, NEW s, NEW F, NEW g, NEW w, NEW b \in Build(r, s, F, g, w), NEW d
  PROVE  /\ Redrawn(b, d).hosts = Inventory(r, F, g, w)
         /\ Redrawn(b, d).flows \in Tables(r.flows, [f \in r.flows |-> Bytes(f)], Cardinality(r.flows))
<1> DEFINE talkers == [i \in DOMAIN s.talkers |-> HostView(r, s.talkers[i].ip, g, w)]
           h == Inventory(r, F, g, w)
           T == Tables(r.flows, [f \in r.flows |-> Bytes(f)], Cardinality(r.flows))
<1>1. PICK flows \in T :
        b = [hosts |-> h, talkers |-> talkers, flows |-> flows, findings |-> F,
             risk |-> RiskAssessment(F), summary |-> s, diagram |-> FALSE]
  BY DEF Build, Inventory
<1> HIDE DEF talkers, h, T
<1>2. Redrawn(b, d).hosts = h /\ Redrawn(b, d).flows = flows
  BY <1>1 DEF Redrawn
<1> QED BY <1>1, <1>2 DEF h, T

\* Each host of the capture once, by address.
LEMMA InventoryIs ==
  ASSUME NEW r \in Captures, NEW K, NEW F, Graded(F, K), NEW g, NEW w, NEW H, H = Inventory(r, F, g, w)
  PROVE  /\ H \in Seq(ToSet(H))
         /\ \A i \in DOMAIN H : /\ H[i].ip \in DOMAIN r.hosts
                                /\ H[i].private = r.hosts[H[i].ip].private
                                /\ H[i].findings = FindingIds(F, H[i].ip)
         /\ \A ip \in DOMAIN r.hosts : \E i \in DOMAIN H : H[i].ip = ip
         /\ \A i, j \in DOMAIN H : i < j => H[i].ip < H[j].ip
<1> DEFINE D == DOMAIN r.hosts
           n == Cardinality(D)
           ips == Ascending(D)
<1>1. IsFiniteSet(D) /\ D \subseteq Int
  BY CapturesAssumption
<1>2. /\ ips \in [1..n -> D] /\ n \in Nat
      /\ \A x \in D : \E k \in 1..n : ips[k] = x
      /\ \A i, j \in 1..n : i < j => ips[i] < ips[j]
  <2> HIDE DEF D
  <2> QED BY <1>1, AscendingIs
<1>3. H = [i \in DOMAIN ips |-> [HostView(r, ips[i], g, w) EXCEPT !.findings = FindingIds(F, ips[i])]]
  BY DEF Inventory
<1> HIDE DEF ips, n
<1>4. DOMAIN H = 1..n /\ H = [i \in 1..n |-> H[i]]
  BY <1>2, <1>3
<1>5. \A i \in 1..n : /\ H[i].ip = ips[i] /\ H[i].private = r.hosts[ips[i]].private
                     /\ H[i].findings = FindingIds(F, ips[i])
  <2> SUFFICES ASSUME NEW i \in 1..n
               PROVE  /\ H[i].ip = ips[i] /\ H[i].private = r.hosts[ips[i]].private
                      /\ H[i].findings = FindingIds(F, ips[i])
    OBVIOUS
  <2>1. H[i] = [HostView(r, ips[i], g, w) EXCEPT !.findings = FindingIds(F, ips[i])]
    BY <1>2, <1>3
  <2> DEFINE p == r.hosts[ips[i]].private
             q == FindingIds(F, ips[i])
             y == r.hosts[ips[i]].bytes
             c == ips[i] \in g
             e == ips[i] \in w
             u == ips[i]
  <2>2. H[i] = [[ip |-> u, private |-> p, bytes |-> y, geo |-> c, whois |-> e, findings |-> <<>>]
                  EXCEPT !.findings = q]
    BY <2>1 DEF HostView
  <2> HIDE DEF p, q, y, c, e, u
  <2>3. H[i].ip = u /\ H[i].private = p /\ H[i].findings = q
    BY <2>2
  <2> QED BY <2>3 DEF p, q, u
<1>6. H \in Seq(ToSet(H))
  <2> DEFINE T == ToSet(H)
  <2>1. \A i \in 1..n : H[i] \in T
    BY <1>4 DEF ToSet
  <2> HIDE DEF T
  <2>2. H \in Seq(T)
    BY <1>2, <1>4, <2>1
  <2> QED BY <2>2 DEF T
<1> QED BY <1>2, <1>4, <1>5, <1>6

\* What a report is of.
LEMMA ReportIs ==
  ASSUME DetectInv, ReportInv, Built
  PROVE  /\ Graded(report.findings, Kinds)
         /\ report.findings = Ranks(detected)
         /\ report.hosts = Inventory(result, report.findings, geo, whois)
         /\ report.flows \in Tables(result.flows, [f \in result.flows |-> Bytes(f)],
                                    Cardinality(result.flows))
<1> DEFINE S == ToSet(detected)
<1>1. detected \in Seq(S) /\ \A x \in S : x.severity \in Severities /\ Fine(x, Kinds)
  BY DEF DetectInv, Graded, Fine
<1>2. findings = Ranks(detected)
  <2> HIDE DEF S
  <2> QED BY <1>1, SortRanks DEF ReportInv
<1>3. PICK b \in Build(result, summary, findings, geo, whois), d \in BOOLEAN : report = Redrawn(b, d)
  BY DEF ReportInv
<1>4. report.findings = findings
  BY <1>3, BuildFindings
<1>5. /\ report.hosts = Inventory(result, findings, geo, whois)
      /\ report.flows \in Tables(result.flows, [f \in result.flows |-> Bytes(f)],
                                 Cardinality(result.flows))
  BY <1>3, BuildTables
<1>6. Ranks(detected) \in Seq(S)
  <2> DEFINE T == {x \in S : x.severity \in 0..4}
  <2>1. T \subseteq S
    OBVIOUS
  <2>2. Ranks(detected) \in Seq(T)
    <3> HIDE DEF S
    <3> QED BY <1>1, RanksFall DEF Falls
  <2> HIDE DEF S, T
  <2> QED BY <2>1, <2>2
<1>7. Graded(Ranks(detected), Kinds)
  <2> HIDE DEF S
  <2> QED BY <1>1, <1>6, GradedIn
<1> QED BY <1>2, <1>4, <1>5, <1>7

\* An empty list of numbers holds none.
LEMMA NoneIn == ASSUME NEW S, NEW s \in Seq(S) PROVE s # <<>> <=> \E x : x \in ToSet(s)
<1>1. Len(s) \in Nat /\ DOMAIN s = 1..Len(s) /\ (s # <<>> <=> Len(s) # 0)
  OBVIOUS
<1>2. (\E x : x \in ToSet(s)) <=> \E i \in DOMAIN s : TRUE
  BY DEF ToSet
<1>3. Len(s) # 0 <=> \E i \in 1..Len(s) : TRUE
  <2>1. Len(s) # 0 => 1 \in 1..Len(s)
    BY <1>1
  <2>2. \A i \in 1..Len(s) : Len(s) # 0
    BY <1>1
  <2> QED BY <2>1, <2>2
<1> QED BY <1>1, <1>2, <1>3

\* The hosts and the findings of a report refer to each other.
LEMMA FlagsBothWays == DetectInv /\ ReportInv => FlaggedAgree
<1> SUFFICES ASSUME DetectInv, ReportInv, Built
             PROVE  /\ \A i \in DOMAIN report.hosts :
                         ToSet(report.hosts[i].findings)
                           = {n \in DOMAIN report.findings : report.hosts[i].ip \in ToSet(report.findings[n].hosts)}
                    /\ {h.ip : h \in ToSet(SecurityView(report).flagged)}
                         = DOMAIN result.hosts \intersect
                             UNION {ToSet(report.findings[n].hosts) : n \in DOMAIN report.findings}
  BY DEF FlaggedAgree
<1> DEFINE F == report.findings
           H == report.hosts
           names(ip) == {n \in DOMAIN F : ip \in ToSet(F[n].hosts)}
           marked == {h \in ToSet(H) : h.findings # <<>>}
<1>1. Graded(F, Kinds) /\ H = Inventory(result, F, geo, whois) /\ result \in Captures
  BY ReportIs DEF DetectInv
<1> HIDE DEF F, H
<1>2. /\ H \in Seq(ToSet(H))
      /\ \A i \in DOMAIN H : H[i].ip \in DOMAIN result.hosts /\ H[i].findings = FindingIds(F, H[i].ip)
      /\ \A ip \in DOMAIN result.hosts : \E i \in DOMAIN H : H[i].ip = ip
  BY <1>1, InventoryIs
<1>3. \A i \in DOMAIN H : ToSet(H[i].findings) = names(H[i].ip) /\ H[i].findings \in Seq(Nat)
  BY <1>1, <1>2, FindingIdsAre
<1>4. \A i \in DOMAIN H : H[i].findings # <<>> <=> \E n \in DOMAIN F : H[i].ip \in ToSet(F[n].hosts)
  <2> SUFFICES ASSUME NEW i \in DOMAIN H
               PROVE  H[i].findings # <<>> <=> \E n \in DOMAIN F : H[i].ip \in ToSet(F[n].hosts)
    OBVIOUS
  <2> DEFINE l == H[i].findings
  <2>1. l \in Seq(Nat) /\ ToSet(l) = names(H[i].ip)
    BY <1>3
  <2> HIDE DEF l
  <2>2. l # <<>> <=> \E x : x \in ToSet(l)
    BY <2>1, NoneIn
  <2> QED BY <2>1, <2>2 DEF l
<1>5. ToSet(Those(H, marked)) = marked
  <2> DEFINE T == ToSet(H)
  <2>1. H \in Seq(T) /\ marked \subseteq T
    BY <1>2
  <2> HIDE DEF marked, T
  <2>2. ToSet(Those(H, marked)) = ToSet(H) \cap marked
    BY <2>1, ThoseAre
  <2> QED BY <2>1, <2>2 DEF T
<1>6. SecurityView(report).flagged = Those(H, marked)
  BY DEF SecurityView, H
<1>7. {h.ip : h \in marked} = DOMAIN result.hosts \intersect UNION {ToSet(F[n].hosts) : n \in DOMAIN F}
  <2>1. \A h \in marked : h.ip \in DOMAIN result.hosts /\ \E n \in DOMAIN F : h.ip \in ToSet(F[n].hosts)
    BY <1>2, <1>4 DEF ToSet
  <2>2. \A ip \in DOMAIN result.hosts :
          (\E n \in DOMAIN F : ip \in ToSet(F[n].hosts)) => \E h \in marked : h.ip = ip
    BY <1>2, <1>4 DEF ToSet
  <2> HIDE DEF marked
  <2> QED BY <2>1, <2>2
<1> HIDE DEF marked
<1> QED BY <1>3, <1>5, <1>6, <1>7 DEF F, H

\* Whatever is found: a host of the inventory has the numbers of just the
\* findings that name it, and the security view lists just the hosts that
\* some finding names.
THEOREM FlagsAgree == Spec => []FlaggedAgree
<1>1. Init => DetectInv /\ ReportInv
  <2>1. Init => ReportInv
    BY DEF Init, ReportInv, Built
  <2> QED BY <2>1, DetectInitially
<1>2. DetectInv /\ ReportInv /\ [Next]_vars => DetectInv' /\ ReportInv'
  BY DetectKept, ReportKept
<1>3. DetectInv /\ ReportInv => FlaggedAgree
  BY FlagsBothWays
<1> QED BY <1>1, <1>2, <1>3, PTL DEF Spec

-----------------------------------------------------------------------------
(* DiagramHonest *)

\* Boxes for different hosts.
Distinct(s) == \A i, j \in DOMAIN s : s[i].ip = s[j].ip => i = j

\* Two columns without a host in common.
Apart(s, t) == \A i \in DOMAIN s, j \in DOMAIN t : s[i].ip # t[j].ip

\* p and q have the hosts of s, each once.
Shares(s, p, q) ==
  /\ \A x : x \in ToSet(p) \/ x \in ToSet(q) <=> x \in ToSet(s)
  /\ Distinct(p) /\ Distinct(q) /\ Apart(p, q)

\* A table is of rows.
LEMMA TablesType ==
  ASSUME NEW rows, IsFiniteSet(rows), NEW key, NEW n \in Nat, NEW t \in Tables(rows, key, n)
  PROVE  t \in Seq(rows)
<1>1. PICK u \in SetToSeqs(rows) : t = SubSeq(u, 1, IF Len(u) > n THEN n ELSE Len(u))
  BY DEF Tables
<1>2. u \in [1..Cardinality(rows) -> rows] /\ Cardinality(rows) \in Nat
  BY FS_CardinalityType DEF SetToSeqs
<1>3. u \in Seq(rows) /\ Len(u) \in Nat
  BY <1>2
<1> DEFINE m == IF Len(u) > n THEN n ELSE Len(u)
<1>4. m \in 0..Len(u)
  BY <1>3
<1> HIDE DEF m
<1>5. SubSeq(u, 1, m) \in Seq(rows)
  BY <1>3, <1>4
<1> QED BY <1>1, <1>5 DEF m

\* A column cut in two has the same hosts.
LEMMA Halves ==
  ASSUME NEW S, NEW s \in Seq(S), Distinct(s), NEW m, m = (Len(s) + 1) \div 2, Len(s) > 1
  PROVE  /\ SubSeq(s, 1, m) \in Seq(S) /\ SubSeq(s, m + 1, Len(s)) \in Seq(S)
         /\ Shares(s, SubSeq(s, 1, m), SubSeq(s, m + 1, Len(s)))
<1> DEFINE n == Len(s)
           p == SubSeq(s, 1, m)
           q == SubSeq(s, m + 1, Len(s))
<1>1. n \in Nat /\ DOMAIN s = 1..n /\ m \in 1..n
  BY Z3
<1>2. p = [i \in 1..m |-> s[i]] /\ p \in Seq(S)
  BY <1>1
<1>3. q = [i \in 1..(n - m) |-> s[m + i]] /\ q \in Seq(S)
  BY <1>1
<1> HIDE DEF n, p, q
<1>4. DOMAIN p = 1..m /\ DOMAIN q = 1..(n - m) /\ m \in Int /\ n \in Int
  BY <1>1, <1>2, <1>3
<1>5. \A i \in DOMAIN p : p[i] = s[i] /\ i \in DOMAIN s /\ i <= m /\ i \in Int
  BY <1>1, <1>2, <1>4
<1>6. \A i \in DOMAIN q : q[i] = s[m + i] /\ m + i \in DOMAIN s /\ m + i > m /\ i \in Int
  BY <1>1, <1>3, <1>4
<1>7. Distinct(p)
  BY <1>5 DEF Distinct
<1>8. Distinct(q)
  <2> SUFFICES ASSUME NEW i \in DOMAIN q, NEW j \in DOMAIN q, q[i].ip = q[j].ip PROVE i = j
    BY DEF Distinct
  <2>1. m + i = m + j
    BY <1>6 DEF Distinct
  <2> QED BY <1>4, <1>6, <2>1
<1>9. Apart(p, q)
  <2> SUFFICES ASSUME NEW i \in DOMAIN p, NEW j \in DOMAIN q, p[i].ip = q[j].ip PROVE FALSE
    BY DEF Apart
  <2>1. i = m + j
    BY <1>5, <1>6 DEF Distinct
  <2> QED BY <1>4, <1>5, <1>6, <2>1
<1>10. \A x : x \in ToSet(p) \/ x \in ToSet(q) => x \in ToSet(s)
  BY <1>5, <1>6 DEF ToSet
<1>11. \A i \in DOMAIN s : s[i] \in ToSet(p) \/ s[i] \in ToSet(q)
  <2> SUFFICES ASSUME NEW i \in DOMAIN s PROVE s[i] \in ToSet(p) \/ s[i] \in ToSet(q)
    OBVIOUS
  <2>1. CASE i <= m
    <3>1. i \in DOMAIN p
      BY <1>1, <1>4, <2>1
    <3> QED BY <1>5, <3>1 DEF ToSet
  <2>2. CASE i > m
    <3>1. i - m \in DOMAIN q /\ m + (i - m) = i
      BY <1>1, <1>4, <2>2
    <3>2. q[i - m] = s[i]
      BY <1>6, <3>1
    <3> QED BY <3>1, <3>2 DEF ToSet
  <2> QED BY <1>1, <1>4, <2>1, <2>2
<1>12. \A x : x \in ToSet(s) => x \in ToSet(p) \/ x \in ToSet(q)
  BY <1>11 DEF ToSet
<1>13. Shares(s, p, q)
  BY <1>7, <1>8, <1>9, <1>10, <1>12 DEF Shares
<1> QED BY <1>2, <1>3, <1>13 DEF p, q

\* p and q have the hosts of L and R, each once.
Spread(L, R, p, q) ==
  /\ \A x : x \in ToSet(p) \/ x \in ToSet(q) <=> x \in ToSet(L) \/ x \in ToSet(R)
  /\ Distinct(p) /\ Distinct(q) /\ Apart(p, q)

\* The columns show the hosts involved, each once.
LEMMA ColumnsAre ==
  ASSUME NEW rep, NEW S, NEW L, L = Involved(rep, TRUE), NEW R, R = Involved(rep, FALSE),
         L \in Seq(S), R \in Seq(S), Distinct(L), Distinct(R), Apart(L, R)
  PROVE  \E p, q \in Seq(S) :
           Columns(rep) = <<p, q>> /\ Spread(L, R, p, q)
<1> DEFINE mid(s) == (Len(s) + 1) \div 2
           cut(s) == <<SubSeq(s, 1, mid(s)), SubSeq(s, mid(s) + 1, Len(s))>>
<1>1. Columns(rep) = IF R = <<>> /\ Len(L) > 1 THEN cut(L)
                     ELSE IF L = <<>> /\ Len(R) > 1 THEN cut(R) ELSE <<L, R>>
  BY DEF Columns
<1>2. \A s \in Seq(S) : s = <<>> => \A x : x \notin ToSet(s)
  BY DEF ToSet
<1>3. CASE R = <<>> /\ Len(L) > 1
  <2> DEFINE p == SubSeq(L, 1, mid(L))
             q == SubSeq(L, mid(L) + 1, Len(L))
  <2>1. p \in Seq(S) /\ q \in Seq(S) /\ Shares(L, p, q)
    <3>1. mid(L) = (Len(L) + 1) \div 2
      OBVIOUS
    <3> HIDE DEF mid
    <3> QED BY <1>3, <3>1, Halves
  <2>2. Columns(rep) = <<p, q>>
    BY <1>1, <1>3
  <2> HIDE DEF p, q
  <2> QED BY <1>2, <1>3, <2>1, <2>2 DEF Shares, Spread
<1>4. CASE ~(R = <<>> /\ Len(L) > 1) /\ L = <<>> /\ Len(R) > 1
  <2> DEFINE p == SubSeq(R, 1, mid(R))
             q == SubSeq(R, mid(R) + 1, Len(R))
  <2>1. p \in Seq(S) /\ q \in Seq(S) /\ Shares(R, p, q)
    <3>1. mid(R) = (Len(R) + 1) \div 2
      OBVIOUS
    <3> HIDE DEF mid
    <3> QED BY <1>4, <3>1, Halves
  <2>2. Columns(rep) = <<p, q>>
    BY <1>1, <1>4
  <2> HIDE DEF p, q
  <2> QED BY <1>2, <1>4, <2>1, <2>2 DEF Shares, Spread
<1>5. CASE ~(R = <<>> /\ Len(L) > 1) /\ ~(L = <<>> /\ Len(R) > 1)
  <2>1. Columns(rep) = <<L, R>>
    BY <1>1, <1>5
  <2> QED BY <2>1 DEF Spread
<1> QED BY <1>3, <1>4, <1>5

\* What a column shows of its hosts.
LEMMA BoxIs ==
  ASSUME NEW S, NEW s \in Seq(S), Distinct(s), NEW b, b = FirstOf(s, MaxNodes)
  PROVE  /\ \A i \in DOMAIN b : i \in DOMAIN s /\ b[i] = s[i]
         /\ ~(Len(s) > MaxNodes) => b = s
         /\ Len(s) > MaxNodes => \E x \in ToSet(s) : \A i \in DOMAIN b : b[i].ip # x.ip
<1>1. MaxNodes \in Nat /\ Len(s) \in Nat /\ DOMAIN s = 1..Len(s)
  BY ReportAssumption
<1> DEFINE m == IF Len(s) > MaxNodes THEN MaxNodes ELSE Len(s)
<1>2. m \in 0..Len(s)
  BY <1>1
<1>3. b = SubSeq(s, 1, m)
  BY DEF FirstOf
<1>4. Len(s) > MaxNodes => m + 1 \in DOMAIN s
  BY <1>1
<1>5. ~(Len(s) > MaxNodes) => m = Len(s)
  OBVIOUS
<1> HIDE DEF m
<1>6. b = [i \in 1..m |-> s[i]]
  BY <1>2, <1>3
<1>7. DOMAIN b = 1..m /\ m \in Int /\ \A i \in 1..m : i \in DOMAIN s /\ b[i] = s[i] /\ i # m + 1
  BY <1>1, <1>2, <1>6
<1>8. m = Len(s) => b = s
  <2>1. s = [i \in 1..Len(s) |-> s[i]]
    OBVIOUS
  <2> QED BY <1>6, <2>1
<1>9. m + 1 \in DOMAIN s => s[m + 1] \in ToSet(s) /\ \A i \in DOMAIN b : b[i].ip # s[m + 1].ip
  BY <1>7 DEF Distinct, ToSet
<1> QED BY <1>4, <1>5, <1>7, <1>8, <1>9

\* The hosts of one kind at the ends of what is drawn.
LEMMA InvolvedAre ==
  ASSUME NEW rep, NEW H, H = rep.hosts, H \in Seq(ToSet(H)),
         \A i \in DOMAIN H : H[i].ip \in Int,
         \A i, j \in DOMAIN H : i < j => H[i].ip < H[j].ip, NEW p
  PROVE  /\ Involved(rep, p) \in Seq(ToSet(H)) /\ Distinct(Involved(rep, p))
         /\ \A h : h \in ToSet(Involved(rep, p)) <=>
                     h \in ToSet(H) /\ h.private = p /\ \E f \in ToSet(DrawnFlows(rep)) : h.ip \in {f.a, f.b}
<1> DEFINE T == {h \in ToSet(H) : h.private = p /\ \E f \in ToSet(DrawnFlows(rep)) : h.ip \in {f.a, f.b}}
           I == Those(H, T)
           S == ToSet(H)
<1>1. Involved(rep, p) = I
  BY DEF Involved
<1>2. T \subseteq S
  OBVIOUS
<1> DEFINE P(h) == h \in ToSet(H) /\ h.private = p /\ \E f \in ToSet(DrawnFlows(rep)) : h.ip \in {f.a, f.b}
<1>3. \A h : h \in T <=> P(h)
  OBVIOUS
<1>4. Len(H) \in Nat /\ DOMAIN H = 1..Len(H)
  OBVIOUS
<1>5. H \in Seq(S)
  OBVIOUS
<1> HIDE DEF T, P, S
<1>6. I \in Seq(S \cap T) /\ ToSet(I) = ToSet(H) \cap T /\ InOrderOf(I, H)
  BY <1>5, ThoseType, ThoseAre
<1> HIDE DEF I
<1>7. I \in Seq(S) /\ DOMAIN I = 1..Len(I) /\ Len(I) \in Nat
  <2> DEFINE V == S \cap T
  <2>1. V \subseteq S /\ I \in Seq(V)
    BY <1>6
  <2> HIDE DEF V
  <2> QED BY <2>1
<1>8. Distinct(I)
  <2>1. \A i, j \in DOMAIN I : i < j => I[i].ip # I[j].ip
    <3> SUFFICES ASSUME NEW i \in DOMAIN I, NEW j \in DOMAIN I, i < j PROVE I[i].ip # I[j].ip
      OBVIOUS
    <3>1. PICK k \in DOMAIN H, l \in DOMAIN H : k < l /\ I[i] = H[k] /\ I[j] = H[l]
      BY <1>6 DEF InOrderOf
    <3>2. H[k].ip < H[l].ip /\ H[k].ip \in Int /\ H[l].ip \in Int
      BY <3>1
    <3>3. H[k].ip # H[l].ip
      BY <3>2
    <3> QED BY <3>1, <3>3
  <2> SUFFICES ASSUME NEW i \in DOMAIN I, NEW j \in DOMAIN I, I[i].ip = I[j].ip PROVE i = j
    BY DEF Distinct
  <2>2. ~(i < j) /\ ~(j < i)
    BY <2>1
  <2> QED BY <1>7, <2>2
<1>9. \A h : h \in ToSet(I) <=> P(h)
  BY <1>2, <1>3, <1>6 DEF S
<1> QED BY <1>1, <1>7, <1>8, <1>9 DEF P, S

\* The diagram of a report is honest about what it leaves out.
LEMMA DiagramTrue == DetectInv /\ ReportInv => DiagramHonest
<1> DEFINE H == report.hosts
           S == ToSet(H)
           drawn == ToSet(DrawnFlows(report))
           L == Involved(report, TRUE)
           R == Involved(report, FALSE)
           d == Diagram(report)
           placed == DOMAIN d.colors
<1> SUFFICES ASSUME DetectInv, ReportInv, Built
             PROVE  /\ d.note <=> \E f \in drawn : ~({f.a, f.b} \subseteq placed)
                    /\ {d.lines[i].flow : i \in DOMAIN d.lines} = {f \in drawn : {f.a, f.b} \subseteq placed}
  BY DEF DiagramHonest
<1>1. /\ Graded(report.findings, Kinds) /\ H = Inventory(result, report.findings, geo, whois)
      /\ report.flows \in Tables(result.flows, [f \in result.flows |-> Bytes(f)], Cardinality(result.flows))
      /\ result \in Captures
  BY ReportIs DEF DetectInv
<1>2. /\ IsFiniteSet(result.flows) /\ \A f \in result.flows : f.a \in DOMAIN result.hosts /\ f.b \in DOMAIN result.hosts
      /\ DOMAIN result.hosts \subseteq Int
      /\ \A ip \in DOMAIN result.hosts : result.hosts[ip].private \in BOOLEAN
  BY <1>1, CapturesAssumption
<1> DEFINE dr == DrawnFlows(report)
<1>3. dr \in Seq(result.flows)
  <2>1. Cardinality(result.flows) \in Nat
    BY <1>2, FS_CardinalityType
  <2>2. report.flows \in Seq(result.flows)
    BY <1>1, <1>2, <2>1, TablesType
  <2>3. PICK m \in 0..Len(report.flows) : FirstOf(report.flows, MaxFlows) = [i \in 1..m |-> report.flows[i]]
    BY <2>2, FirstOfIs, ReportAssumption
  <2>4. Len(report.flows) \in Nat /\ m \in Nat
    BY <2>2, <2>3
  <2>5. [i \in 1..m |-> report.flows[i]] \in Seq(result.flows)
    BY <2>2, <2>3, <2>4
  <2> QED BY <2>3, <2>5 DEF DrawnFlows
<1> HIDE DEF dr
<1>4. drawn = ToSet(dr) /\ dr \in Seq(drawn) /\ \A f \in drawn : f \in result.flows
  <2> DEFINE Z == drawn
  <2>1. Z = ToSet(dr) /\ Len(dr) \in Nat /\ dr = [i \in 1..Len(dr) |-> dr[i]]
    BY <1>3 DEF dr
  <2>2. \A i \in 1..Len(dr) : dr[i] \in Z
    BY <1>3, <2>1 DEF ToSet
  <2>3. \A f \in Z : f \in result.flows
    BY <1>3, <2>1 DEF ToSet
  <2> HIDE DEF Z
  <2>4. dr \in Seq(Z)
    BY <2>1, <2>2
  <2> QED BY <2>1, <2>3, <2>4 DEF Z
<1> HIDE DEF H
<1>5. /\ H \in Seq(S) /\ H = report.hosts
      /\ \A i \in DOMAIN H : /\ H[i].ip \in DOMAIN result.hosts /\ H[i].ip \in Int
                             /\ H[i].private = result.hosts[H[i].ip].private
      /\ \A ip \in DOMAIN result.hosts : \E i \in DOMAIN H : H[i].ip = ip
      /\ \A i, j \in DOMAIN H : i < j => H[i].ip < H[j].ip
  <2>1. H = report.hosts
    BY DEF H
  <2>2. /\ H \in Seq(S)
        /\ \A i \in DOMAIN H : /\ H[i].ip \in DOMAIN result.hosts
                               /\ H[i].private = result.hosts[H[i].ip].private
        /\ \A ip \in DOMAIN result.hosts : \E i \in DOMAIN H : H[i].ip = ip
        /\ \A i, j \in DOMAIN H : i < j => H[i].ip < H[j].ip
    BY <1>1, InventoryIs
  <2> QED BY <1>2, <2>1, <2>2
<1> DEFINE Ends(h) == \E f \in drawn : h.ip \in {f.a, f.b}
<1>6. \A p \in BOOLEAN :
        /\ Involved(report, p) \in Seq(S) /\ Distinct(Involved(report, p))
        /\ \A h : h \in ToSet(Involved(report, p)) <=> h \in S /\ h.private = p /\ Ends(h)
  BY <1>5, InvolvedAre
<1>7. /\ L \in Seq(S) /\ Distinct(L) /\ R \in Seq(S) /\ Distinct(R)
      /\ \A h : h \in ToSet(L) <=> h \in S /\ h.private = TRUE /\ Ends(h)
      /\ \A h : h \in ToSet(R) <=> h \in S /\ h.private = FALSE /\ Ends(h)
  BY <1>6
<1>8. \A h \in S : /\ h.ip \in DOMAIN result.hosts /\ h.private = result.hosts[h.ip].private
                   /\ h.private \in BOOLEAN
  <2> SUFFICES ASSUME NEW i \in DOMAIN H
               PROVE  /\ H[i].ip \in DOMAIN result.hosts /\ H[i].private = result.hosts[H[i].ip].private
                      /\ H[i].private \in BOOLEAN
    BY DEF ToSet
  <2> QED BY <1>2, <1>5
<1> HIDE DEF L, R, Ends, S, drawn
<1>9. Apart(L, R)
  <2> SUFFICES ASSUME NEW i \in DOMAIN L, NEW j \in DOMAIN R, L[i].ip = R[j].ip PROVE FALSE
    BY DEF Apart
  <2>1. L[i] \in ToSet(L) /\ R[j] \in ToSet(R)
    BY DEF ToSet
  <2>2. L[i].private = TRUE /\ R[j].private = FALSE /\ L[i].private = R[j].private
    BY <1>7, <1>8, <2>1
  <2> QED BY <2>2
<1>10. PICK p \in Seq(S), q \in Seq(S) :
          Columns(report) = <<p, q>> /\ Spread(L, R, p, q)
  <2>1. L = Involved(report, TRUE) /\ R = Involved(report, FALSE)
    BY DEF L, R
  <2> QED BY <1>7, <1>9, <2>1, ColumnsAre
<1>11. \A h : h \in ToSet(p) \/ h \in ToSet(q) <=> h \in S /\ Ends(h)
  BY <1>7, <1>8, <1>10 DEF Spread
<1> DEFINE b1 == FirstOf(p, MaxNodes)
           b2 == FirstOf(q, MaxNodes)
           lines == Those(dr, {f \in ToSet(dr) : {f.a, f.b} \subseteq placed})
<1>12. placed = {b1[i].ip : i \in DOMAIN b1} \union {b2[i].ip : i \in DOMAIN b2}
  BY <1>10 DEF Diagram
<1>13. d.note <=> Len(p) > MaxNodes \/ Len(q) > MaxNodes
  BY <1>10 DEF Diagram, TooMany
<1>14. {d.lines[i].flow : i \in DOMAIN d.lines} = {lines[i] : i \in DOMAIN lines}
  BY <1>10, <1>12 DEF Diagram, dr
<1> HIDE DEF d, b1, b2, lines
<1>15. {lines[i] : i \in DOMAIN lines} = {f \in drawn : {f.a, f.b} \subseteq placed}
  <2> DEFINE T == {f \in ToSet(dr) : {f.a, f.b} \subseteq placed}
  <2>1. T = {f \in drawn : {f.a, f.b} \subseteq placed} /\ T \subseteq ToSet(dr) /\ lines = Those(dr, T)
    BY <1>4 DEF lines
  <2> HIDE DEF T
  <2>2. ToSet(lines) = ToSet(dr) \cap T
    BY <1>3, <2>1, ThoseAre
  <2> QED BY <2>1, <2>2 DEF ToSet
<1>16. /\ \A i \in DOMAIN b1 : i \in DOMAIN p /\ b1[i] = p[i]
       /\ ~(Len(p) > MaxNodes) => b1 = p
       /\ Len(p) > MaxNodes => \E x \in ToSet(p) : \A i \in DOMAIN b1 : b1[i].ip # x.ip
  BY <1>10, BoxIs DEF b1, Spread
<1>17. /\ \A i \in DOMAIN b2 : i \in DOMAIN q /\ b2[i] = q[i]
       /\ ~(Len(q) > MaxNodes) => b2 = q
       /\ Len(q) > MaxNodes => \E x \in ToSet(q) : \A i \in DOMAIN b2 : b2[i].ip # x.ip
  BY <1>10, BoxIs DEF b2, Spread
<1> HIDE DEF placed
<1>18. ASSUME Len(p) > MaxNodes PROVE \E h : h \in S /\ Ends(h) /\ h.ip \notin placed
  <2>1. PICK x \in ToSet(p) : \A i \in DOMAIN b1 : b1[i].ip # x.ip
    BY <1>16, <1>18
  <2>2. \A i \in DOMAIN b2 : b2[i].ip # x.ip
    BY <1>10, <1>17, <2>1 DEF Apart, ToSet, Spread
  <2> QED BY <1>11, <1>12, <2>1, <2>2
<1>19. ASSUME Len(q) > MaxNodes PROVE \E h : h \in S /\ Ends(h) /\ h.ip \notin placed
  <2>1. PICK x \in ToSet(q) : \A i \in DOMAIN b2 : b2[i].ip # x.ip
    BY <1>17, <1>19
  <2>2. \A i \in DOMAIN b1 : b1[i].ip # x.ip
    BY <1>10, <1>16, <2>1 DEF Apart, ToSet, Spread
  <2> QED BY <1>11, <1>12, <2>1, <2>2
<1>20. d.note => \E f \in drawn : ~({f.a, f.b} \subseteq placed)
  <2> SUFFICES ASSUME d.note PROVE \E f \in drawn : ~({f.a, f.b} \subseteq placed)
    OBVIOUS
  <2>1. PICK h : h \in S /\ Ends(h) /\ h.ip \notin placed
    BY <1>13, <1>18, <1>19
  <2> QED BY <2>1 DEF Ends
<1>21. ASSUME ~d.note, NEW f \in drawn PROVE {f.a, f.b} \subseteq placed
  <2>1. b1 = p /\ b2 = q
    BY <1>13, <1>16, <1>17, <1>21
  <2>2. ASSUME NEW ip \in {f.a, f.b} PROVE ip \in placed
    <3>1. ip \in DOMAIN result.hosts
      BY <1>2, <1>4, <2>2
    <3>2. PICK i \in DOMAIN H : H[i].ip = ip
      BY <1>5, <3>1
    <3>3. H[i] \in S /\ Ends(H[i])
      BY <3>2, <2>2 DEF S, Ends, ToSet
    <3>4. H[i] \in ToSet(p) \/ H[i] \in ToSet(q)
      BY <1>11, <3>3
    <3> QED BY <1>12, <2>1, <3>2, <3>4 DEF ToSet
  <2> QED BY <2>2
<1> QED BY <1>14, <1>15, <1>20, <1>21

\* Whatever is captured and found: the diagram says that hosts are left out
\* just when a host of the flows it set out to draw has no box, and draws
\* every such flow whose ends both have one.
THEOREM DrawsHonestly == Spec => []DiagramHonest
<1>1. Init => DetectInv /\ ReportInv
  <2>1. Init => ReportInv
    BY DEF Init, ReportInv, Built
  <2> QED BY <2>1, DetectInitially
<1>2. DetectInv /\ ReportInv /\ [Next]_vars => DetectInv' /\ ReportInv'
  BY DetectKept, ReportKept
<1>3. DetectInv /\ ReportInv => DiagramHonest
  BY DiagramTrue
<1> QED BY <1>1, <1>2, <1>3, PTL DEF Spec

-----------------------------------------------------------------------------
(* What maxBurst finds *)

\* Where the near end of the window comes to when its far end is j.
Near(p, s, w, j) ==
  CHOOSE k \in p.i..j : /\ ~Outside(s[j] - s[k], w)
                        /\ \A l \in p.i..(k - 1) : Outside(s[j] - s[l], w)

\* g[j] is what the sweep has come to at time j.
Sweeps(g, s, w, n) ==
  g = [j \in 0..n |-> IF j = 0 THEN [i |-> 1, best |-> 0]
                      ELSE LET p == g[j - 1]
                               i == Near(p, s, w, j)
                           IN  [i |-> i, best |-> Max2(p.best, j - i + 1)]]

\* There is such a function.
LEMMA SweepsExist == ASSUME NEW s, NEW w, NEW n \in Nat PROVE \E g : Sweeps(g, s, w, n)
<1> DEFINE T == {m \in Nat : ~ \E g : Sweeps(g, s, w, m)}
           Move(p, j) == [i |-> Near(p, s, w, j), best |-> Max2(p.best, j - Near(p, s, w, j) + 1)]
           z == [i |-> 1, best |-> 0]
<1>0. \A g, m : Sweeps(g, s, w, m) <=> g = [j \in 0..m |-> IF j = 0 THEN z ELSE Move(g[j - 1], j)]
  BY DEF Sweeps
<1> HIDE DEF Move, z
<1> SUFFICES ASSUME T # {} PROVE FALSE
  OBVIOUS
<1>1. PICK m \in T : \A j \in T : m <= j
  <2>1. T \subseteq Nat
    OBVIOUS
  <2> HIDE DEF T
  <2> QED BY <2>1, LeastNumber
<1>2. CASE m = 0
  <2> DEFINE g == [j \in 0..0 |-> z]
  <2>1. g = [j \in 0..0 |-> IF j = 0 THEN z ELSE Move(g[j - 1], j)]
    OBVIOUS
  <2>2. Sweeps(g, s, w, 0)
    <3> HIDE DEF g
    <3> QED BY <1>0, <2>1
  <2> QED BY <1>1, <1>2, <2>2
<1>3. CASE m # 0
  <2>1. m - 1 \in Nat /\ m - 1 \notin T /\ m \in Nat
    BY <1>1, <1>3
  <2>2. PICK h : Sweeps(h, s, w, m - 1)
    BY <2>1
  <2> DEFINE g == [j \in 0..m |-> IF j = m THEN Move(h[m - 1], m) ELSE h[j]]
  <2>3. ASSUME NEW j \in 0..m
        PROVE  g[j] = IF j = 0 THEN z ELSE Move(g[j - 1], j)
    <3>1. j # 0 => j - 1 \in 0..m /\ j - 1 # m /\ g[j - 1] = h[j - 1]
      BY <2>1
    <3>2. CASE j = m
      <4>1. g[j] = Move(h[m - 1], m)
        BY <3>2
      <4> HIDE DEF g
      <4> QED BY <1>3, <3>1, <3>2, <4>1
    <3>3. CASE j # m
      <4>1. j \in 0..(m - 1) /\ g[j] = h[j]
        BY <2>1, <3>3
      <4>2. h = [k \in 0..(m - 1) |-> IF k = 0 THEN z ELSE Move(h[k - 1], k)]
        BY <1>0, <2>2
      <4>3. h[j] = IF j = 0 THEN z ELSE Move(h[j - 1], j)
        BY <4>1, <4>2
      <4> HIDE DEF g
      <4> QED BY <3>1, <4>1, <4>3
    <3> QED BY <3>2, <3>3
  <2>4. g = [j \in 0..m |-> g[j]]
    OBVIOUS
  <2> HIDE DEF g
  <2>5. Sweeps(g, s, w, m)
    <3>1. g = [j \in 0..m |-> IF j = 0 THEN z ELSE Move(g[j - 1], j)]
      BY <2>3, <2>4
    <3> QED BY <1>0, <3>1
  <2> QED BY <2>1, <2>5, <1>1
<1> QED BY <1>2, <1>3

\* Times in order.
Ordered(s) == s \in Seq(Int) /\ \A i, j \in DOMAIN s : i <= j => s[i] <= s[j]

\* The widest window that ends at some time begins at f[l].
Begins(f, s, w) ==
  \A l \in DOMAIN s : /\ f[l] \in 1..l
                      /\ \A k \in 1..l : s[l] - s[k] <= w <=> k >= f[l]

\* The near end moves to where the window begins.
LEMMA NearIs ==
  ASSUME NEW s, Ordered(s), NEW w \in Nat, NEW j \in DOMAIN s, NEW p, p.i \in 1..j,
         \A k \in 1..(j - 1) : s[j - 1] - s[k] <= w => k >= p.i
  PROVE  Near(p, s, w, j) \in 1..j /\ \A k \in 1..j : s[j] - s[k] <= w <=> k >= Near(p, s, w, j)
<1> DEFINE past(l) == s[j] - s[l] > w
           T == {k \in p.i..j : ~past(k)}
<1>1. Len(s) \in Nat /\ DOMAIN s = 1..Len(s) /\ \A k \in 1..j : s[k] \in Int /\ k \in DOMAIN s
  BY DEF Ordered
<1>2. j \in Int /\ p.i \in Int /\ p.i >= 1 /\ p.i <= j
  BY <1>1
<1>3. j \in T /\ T \subseteq Nat
  BY <1>1, <1>2
<1>4. PICK k \in T : \A y \in T : k <= y
  <2> HIDE DEF T
  <2> QED BY <1>3, LeastNumber
<1> DEFINE good(x) == ~past(x) /\ \A l \in p.i..(x - 1) : past(l)
<1>5. k \in p.i..j /\ good(k)
  <2>1. \A l \in p.i..(k - 1) : l \in p.i..j /\ ~(k <= l)
    BY <1>2, <1>4
  <2> QED BY <1>4, <2>1
<1>6. Near(p, s, w, j) = CHOOSE x \in p.i..j : good(x)
  BY DEF Near, Outside
<1> DEFINE n == Near(p, s, w, j)
<1> HIDE DEF good
<1>7. n \in p.i..j /\ good(n)
  BY <1>5, <1>6
<1> HIDE DEF n
<1>8. n \in 1..j /\ ~past(n) /\ \A l \in p.i..(n - 1) : past(l)
  BY <1>2, <1>7 DEF good
<1>9. ASSUME NEW x \in 1..j, x >= n PROVE s[j] - s[x] <= w
  <2>1. s[n] <= s[x] /\ s[n] \in Int /\ s[x] \in Int /\ s[j] \in Int
    <3>1. n \in 1..j /\ n <= x
      BY <1>2, <1>8, <1>9
    <3>2. n \in DOMAIN s /\ x \in DOMAIN s /\ s[n] \in Int /\ s[x] \in Int /\ s[j] \in Int
      BY <1>1, <3>1
    <3> QED BY <3>1, <3>2 DEF Ordered
  <2> QED BY <1>8, <2>1
<1>10. ASSUME NEW x \in 1..j, ~(x >= n) PROVE ~(s[j] - s[x] <= w)
  <2>1. CASE x >= p.i
    <3>1. x \in p.i..(n - 1)
      BY <1>2, <1>8, <1>10, <2>1
    <3>2. s[j] \in Int /\ s[x] \in Int
      BY <1>1, <1>2
    <3> QED BY <1>8, <3>1, <3>2
  <2>2. CASE ~(x >= p.i)
    <3>1. x \in 1..(j - 1) /\ j - 1 \in 1..j
      BY <1>2, <2>2
    <3>2. ~(s[j - 1] - s[x] <= w)
      BY <2>2, <3>1
    <3>3. s[j - 1] <= s[j] /\ s[j - 1] \in Int /\ s[j] \in Int /\ s[x] \in Int
      BY <1>1, <1>2, <3>1 DEF Ordered
    <3> QED BY <3>2, <3>3
  <2> QED BY <2>1, <2>2
<1> QED BY <1>8, <1>9, <1>10 DEF n

\* The longest of these windows holds b times.
Longest(f, s, w, b) ==
  /\ Begins(f, s, w) /\ b \in Nat
  /\ \A l \in DOMAIN s : l - f[l] + 1 <= b
  /\ b = 0 \/ \E l \in DOMAIN s : b = l - f[l] + 1

\* What the sweep finds is as long as the longest of them.
LEMMA SweepFinds ==
  ASSUME NEW s, Ordered(s), NEW w \in Nat
  PROVE  \E f : Longest(f, s, w, MaxBurst(s, w))
<1> DEFINE n == Len(s)
           g == CHOOSE h : Sweeps(h, s, w, n)
           f == [l \in 1..n |-> g[l].i]
<1>1. n \in Nat /\ DOMAIN s = 1..n
  BY DEF Ordered
<1>2. Sweeps(g, s, w, n)
  <2> HIDE DEF n
  <2> QED BY <1>1, SweepsExist
<1>3. MaxBurst(s, w) = g[n].best
  BY DEF MaxBurst, Sweeps, Near
<1> HIDE DEF g, n
<1>4. g[0] = [i |-> 1, best |-> 0]
  BY <1>1, <1>2 DEF Sweeps
<1>5. ASSUME NEW j \in 1..n
      PROVE  /\ g[j].i = Near(g[j - 1], s, w, j)
             /\ g[j].best = Max2(g[j - 1].best, j - g[j].i + 1)
  <2> DEFINE i == Near(g[j - 1], s, w, j)
             m == Max2(g[j - 1].best, j - i + 1)
  <2>1. g[j] = [i |-> i, best |-> m]
    BY <1>1, <1>2 DEF Sweeps
  <2> HIDE DEF i, m
  <2>2. g[j].i = i /\ g[j].best = m
    BY <2>1
  <2> QED BY <2>2 DEF i, m
<1> DEFINE Good(j) ==
             /\ g[j].best \in Nat
             /\ j = 0 => g[j].i = 1
             /\ j # 0 => g[j].i \in 1..j /\ \A k \in 1..j : s[j] - s[k] <= w <=> k >= g[j].i
             /\ \A l \in 1..j : l - g[l].i + 1 <= g[j].best
             /\ g[j].best = 0 \/ \E l \in 1..j : g[j].best = l - g[l].i + 1
           B == {j \in 0..n : ~Good(j)}
<1>6. B = {}
  <2> SUFFICES ASSUME B # {} PROVE FALSE
    OBVIOUS
  <2>1. PICK j \in B : \A y \in B : j <= y
    <3>1. B \subseteq Nat
      BY <1>1
    <3> HIDE DEF B
    <3> QED BY <3>1, LeastNumber
  <2>2. j # 0
    <3>1. Good(0)
      BY <1>4
    <3> HIDE DEF Good
    <3> QED BY <2>1, <3>1
  <2>3. j \in 1..n /\ j - 1 \in 0..n /\ ~(j <= j - 1) /\ j \in Int
    BY <1>1, <2>1, <2>2
  <2>4. Good(j - 1)
    <3> HIDE DEF Good
    <3> QED BY <2>1, <2>3
  <2> DEFINE p == g[j - 1]
             i == g[j].i
  <2>5. i \in 1..j /\ \A k \in 1..j : s[j] - s[k] <= w <=> k >= i
    <3>1. p.i \in 1..j
      BY <1>1, <2>3, <2>4
    <3>2. \A k \in 1..(j - 1) : s[j - 1] - s[k] <= w => k >= p.i
      BY <1>1, <2>3, <2>4
    <3>3. i = Near(p, s, w, j) /\ j \in DOMAIN s
      BY <1>1, <1>5, <2>3
    <3> HIDE DEF p, i
    <3> QED BY <3>1, <3>2, <3>3, NearIs
  <2> DEFINE m == j - i + 1
  <2>6. m \in Nat /\ i \in Int
    BY <2>3, <2>5
  <2>7. g[j].best = Max2(p.best, m) /\ p.best \in Nat
    BY <1>5, <2>3, <2>4
  <2>8. /\ g[j].best \in Nat /\ p.best <= g[j].best /\ m <= g[j].best
        /\ g[j].best = p.best \/ g[j].best = m
    <3> HIDE DEF p, m
    <3> QED BY <2>6, <2>7 DEF Max2
  <2>9. \A l \in 1..j : l = j \/ l \in 1..(j - 1)
    BY <2>3
  <2>10. \A l \in 1..j : l - g[l].i + 1 <= g[j].best
    <3> SUFFICES ASSUME NEW l \in 1..j PROVE l - g[l].i + 1 <= g[j].best
      OBVIOUS
    <3>1. CASE l = j
      BY <2>8, <3>1
    <3>2. CASE l \in 1..(j - 1)
      <4>1. l - g[l].i + 1 <= p.best
        BY <2>4, <3>2
      <4>2. g[l].i \in Int /\ l \in Int
        <5>1. l \in 0..n /\ l \notin B /\ l # 0
          <6>1. l \in 0..n /\ ~(j <= l) /\ l # 0
            BY <1>1, <2>3, <3>2
          <6> HIDE DEF B
          <6> QED BY <2>1, <6>1
        <5>2. Good(l)
          BY <5>1
        <5> QED BY <5>1, <5>2
      <4> HIDE DEF p
      <4> QED BY <2>7, <2>8, <4>1, <4>2
    <3> QED BY <2>9, <3>1, <3>2
  <2>11. g[j].best = 0 \/ \E l \in 1..j : g[j].best = l - g[l].i + 1
    <3>1. CASE g[j].best = p.best
      <4>1. \A l \in 1..(j - 1) : l \in 1..j
        BY <2>3
      <4> QED BY <2>4, <3>1, <4>1
    <3>2. CASE g[j].best = m
      <4>1. j \in 1..j
        BY <2>3
      <4> QED BY <3>2, <4>1
    <3> QED BY <2>8, <3>1, <3>2
  <2>12. Good(j)
    BY <2>2, <2>5, <2>8, <2>10, <2>11
  <2> HIDE DEF Good
  <2> QED BY <2>1, <2>12
<1>7. Good(n)
  <2> HIDE DEF Good
  <2> QED BY <1>1, <1>6
<1>8. Begins(f, s, w)
  <2> SUFFICES ASSUME NEW l \in 1..n
               PROVE  f[l] \in 1..l /\ \A k \in 1..l : s[l] - s[k] <= w <=> k >= f[l]
    BY <1>1 DEF Begins
  <2>1. l \in 0..n /\ l # 0
    BY <1>1
  <2>2. Good(l)
    <3> HIDE DEF Good
    <3> QED BY <1>6, <2>1
  <2> QED BY <2>1, <2>2
<1> DEFINE b == MaxBurst(s, w)
<1>9. /\ b \in Nat
      /\ \A l \in DOMAIN s : l - f[l] + 1 <= b
      /\ b = 0 \/ \E l \in DOMAIN s : b = l - f[l] + 1
  BY <1>1, <1>3, <1>7
<1> HIDE DEF f, b, Good
<1>10. Longest(f, s, w, b)
  BY <1>8, <1>9 DEF Longest
<1> QED BY <1>10 DEF b

\* The indices of the times that a window that begins at t holds.
Held(s, t, w) == {k \in DOMAIN s : s[k] \in t..(t + w)}

\* maxBurst finds the largest number of times that any window holds that
\* begins at one of them.
LEMMA MaxBurstIs ==
  ASSUME NEW s, Ordered(s), NEW w \in Nat
  PROVE  MaxBurst(s, w) = Max({0} \union {Cardinality(Held(s, s[q], w)) : q \in DOMAIN s})
<1> DEFINE n == Len(s)
           b == MaxBurst(s, w)
           M == {0} \union {Cardinality(Held(s, s[q], w)) : q \in DOMAIN s}
<1>1. n \in Nat /\ DOMAIN s = 1..n /\ \A k \in 1..n : s[k] \in Int /\ k \in Int
  BY DEF Ordered
<1>2. PICK f : /\ Begins(f, s, w) /\ b \in Nat
               /\ \A l \in DOMAIN s : l - f[l] + 1 <= b
               /\ b = 0 \/ \E l \in DOMAIN s : b = l - f[l] + 1
  <2>1. \E f : Longest(f, s, w, b)
    BY SweepFinds
  <2> HIDE DEF b
  <2> QED BY <2>1 DEF Longest
<1> HIDE DEF n, b
<1>3. \A l \in 1..n : /\ f[l] \in Int /\ 1 <= f[l] /\ f[l] <= l
                     /\ \A k \in 1..l : s[l] - s[k] <= w <=> k >= f[l]
  <2> SUFFICES ASSUME NEW l \in 1..n
               PROVE  /\ f[l] \in Int /\ 1 <= f[l] /\ f[l] <= l
                      /\ \A k \in 1..l : s[l] - s[k] <= w <=> k >= f[l]
    OBVIOUS
  <2>1. l \in DOMAIN s /\ l \in Int
    BY <1>1
  <2>2. f[l] \in 1..l /\ \A k \in 1..l : s[l] - s[k] <= w <=> k >= f[l]
    BY <1>2, <2>1 DEF Begins
  <2>3. f[l] \in Int /\ 1 <= f[l] /\ f[l] <= l
    BY <2>1, <2>2
  <2> QED BY <2>2, <2>3
<1>4. \A i, j \in Int : IsFiniteSet(i..j) /\ (i <= j => Cardinality(i..j) = j - i + 1)
  BY FS_Interval
<1>5. \A t : IsFiniteSet(Held(s, t, w)) /\ Cardinality(Held(s, t, w)) \in Nat
  <2> TAKE t
  <2> DEFINE K == Held(s, t, w)
  <2>1. K \in SUBSET (1..n)
    BY <1>1 DEF Held
  <2>2. IsFiniteSet(1..n)
    BY <1>1, <1>4
  <2> HIDE DEF K
  <2>3. IsFiniteSet(K)
    BY <2>1, <2>2, FS_Subset
  <2>4. Cardinality(K) \in Nat
    BY <2>3, FS_CardinalityType
  <2> QED BY <2>3, <2>4 DEF K
<1>6. ASSUME NEW q \in 1..n PROVE Cardinality(Held(s, s[q], w)) <= b
  <2> DEFINE K == Held(s, s[q], w)
             T == {n - k : k \in K}
  <2>1. K \subseteq 1..n /\ q \in K /\ \A k \in K : s[q] <= s[k] /\ s[k] <= s[q] + w
    BY <1>1, <1>6 DEF Held
  <2> HIDE DEF K
  <2>2. PICK m \in T : \A y \in T : m <= y
    <3>1. T \subseteq Nat /\ T # {}
      BY <1>1, <2>1
    <3> HIDE DEF T
    <3> QED BY <3>1, LeastNumber
  <2>3. PICK l \in K : m = n - l
    BY <2>2
  <2>4. l \in 1..n /\ l \in Int /\ \A k \in K : k <= l /\ k \in 1..n
    <3> SUFFICES ASSUME NEW k \in K PROVE l \in 1..n /\ l \in Int /\ k <= l /\ k \in 1..n
      BY <2>3
    <3>1. n - l <= n - k
      BY <2>2, <2>3
    <3>2. l \in 1..n /\ k \in 1..n
      BY <2>1, <2>3
    <3> QED BY <1>1, <3>1, <3>2
  <2>5. \A k \in K : k \in f[l]..l
    <3> SUFFICES ASSUME NEW k \in K PROVE k \in f[l]..l
      OBVIOUS
    <3>1. s[q] <= s[k] /\ s[l] <= s[q] + w /\ s[q] \in Int /\ s[k] \in Int /\ s[l] \in Int
      BY <1>1, <2>1, <2>3, <2>4
    <3>2. s[l] - s[k] <= w
      BY <3>1
    <3>3. k \in 1..l /\ k \in Int /\ k <= l
      BY <1>1, <2>4
    <3>4. k >= f[l]
      BY <1>3, <2>4, <3>2, <3>3
    <3> QED BY <1>3, <2>4, <3>3, <3>4
  <2> DEFINE W == f[l]..l
  <2>6. K \in SUBSET W
    BY <2>5
  <2>7. IsFiniteSet(W) /\ Cardinality(W) = l - f[l] + 1 /\ l - f[l] + 1 <= b /\ f[l] \in Int
    BY <1>1, <1>2, <1>3, <1>4, <2>4
  <2> HIDE DEF W
  <2>8. Cardinality(K) <= Cardinality(W)
    BY <2>6, <2>7, FS_Subset
  <2>9. Cardinality(K) \in Nat
    BY <1>5 DEF K
  <2> QED BY <1>2, <2>4, <2>7, <2>8, <2>9 DEF K
<1>7. ASSUME NEW l \in 1..n, b = l - f[l] + 1
      PROVE  \E q \in 1..n : b = Cardinality(Held(s, s[q], w))
  <2> DEFINE q == f[l]
             K == Held(s, s[q], w)
             W == q..l
  <2>1. q \in 1..n /\ q \in Int /\ q <= l /\ l \in Int
    BY <1>1, <1>3
  <2>2. \A k \in W : k \in K
    <3> SUFFICES ASSUME NEW k \in W PROVE k \in K
      OBVIOUS
    <3>1. k \in 1..n /\ q <= k /\ k <= l /\ k \in Int
      BY <1>1, <2>1
    <3>2. s[q] <= s[k] /\ s[k] <= s[l]
      BY <1>1, <2>1, <3>1 DEF Ordered
    <3>3. s[l] - s[q] <= w
      BY <1>3, <2>1
    <3>4. s[q] \in Int /\ s[k] \in Int /\ s[l] \in Int
      BY <1>1, <2>1, <3>1
    <3>5. s[k] \in s[q]..(s[q] + w)
      BY <3>2, <3>3, <3>4
    <3> QED BY <1>1, <3>1, <3>5 DEF Held
  <2>3. Cardinality(W) = b /\ W \in SUBSET K
    BY <1>4, <1>7, <2>1, <2>2
  <2>4. IsFiniteSet(K) /\ Cardinality(K) \in Nat /\ Cardinality(K) <= b
    BY <1>5, <1>6, <2>1
  <2> HIDE DEF W, K
  <2>5. Cardinality(W) <= Cardinality(K)
    BY <2>3, <2>4, FS_Subset
  <2>6. b = Cardinality(K)
    BY <1>2, <2>3, <2>4, <2>5
  <2> QED BY <2>1, <2>6 DEF K
<1>8. b \in M
  BY <1>1, <1>2, <1>7
<1>9. \A x \in M : b >= x /\ x \in Int
  BY <1>1, <1>2, <1>5, <1>6
<1> HIDE DEF M
<1>10. Max(M) = b
  <2>1. \A x \in M : (\A y \in M : x >= y) => x = b
    BY <1>8, <1>9
  <2> QED BY <1>8, <1>9, <2>1 DEF Max
<1> QED BY <1>10 DEF M, b

\* A finite set of numbers has a smallest and a largest.
LEMMA Extremes ==
  ASSUME NEW S, IsFiniteSet(S), S \subseteq Int, S # {}
  PROVE  /\ Min(S) \in S /\ \A y \in S : Min(S) <= y
         /\ \E x \in S : \A y \in S : y <= x
<1> DEFINE n == Cardinality(S)
           a == Ascending(S)
<1>1. /\ a \in [1..n -> S] /\ n \in Nat /\ \A x \in S : \E k \in 1..n : a[k] = x
      /\ \A i, j \in 1..n : i < j => a[i] < a[j]
  BY AscendingIs
<1> HIDE DEF n, a
<1>2. n >= 1
  <2>1. PICK k \in 1..n : TRUE
    BY <1>1
  <2> QED BY <1>1, <2>1
<1>6. \A k \in 1..n : a[k] \in Int /\ k \in Int
  <2>1. \A k \in 1..n : a[k] \in S
    BY <1>1
  <2>2. \A x \in S : x \in Int
    OBVIOUS
  <2>3. \A k \in 1..n : k \in Int
    BY <1>1
  <2> QED BY <2>1, <2>2, <2>3
<1>3. \A i, j \in 1..n : i <= j => a[i] <= a[j]
  <2> SUFFICES ASSUME NEW i \in 1..n, NEW j \in 1..n, i <= j PROVE a[i] <= a[j]
    OBVIOUS
  <2>1. a[i] \in Int /\ a[j] \in Int /\ i \in Int /\ j \in Int
    BY <1>6
  <2>2. i = j \/ a[i] < a[j]
    BY <1>1, <2>1
  <2> QED BY <2>1, <2>2
<1>4. \A y \in S : a[1] <= y /\ y <= a[n]
  <2> SUFFICES ASSUME NEW y \in S PROVE a[1] <= y /\ y <= a[n]
    OBVIOUS
  <2>1. PICK k \in 1..n : a[k] = y
    BY <1>1
  <2>2. 1 \in 1..n /\ n \in 1..n /\ 1 <= k /\ k <= n
    BY <1>1, <1>2
  <2> QED BY <1>3, <2>1, <2>2
<1>5. a[1] \in S /\ a[n] \in S
  BY <1>1, <1>2
<1> QED BY <1>4, <1>5 DEF Min

\* The times of the announcements of an address come in order; there are
\* none when it has not announced itself.
LEMMA AnnouncedIs ==
  ASSUME NEW r \in Captures, NEW ip
  PROVE  /\ Ordered(Announced(r, ip))
         /\ (\A e \in ToSet(r.arp) : ~(e.gratuitous /\ e.ip = ip)) => DOMAIN Announced(r, ip) = {}
<1> DEFINE G == {e \in ToSet(r.arp) : e.gratuitous /\ e.ip = ip}
           S == ToSet(r.arp)
           v == Those(r.arp, G)
           up(t) == {i \in DOMAIN v : v[i].time <= t}
           Z == {e.time : e \in ToSet(v)}
           late(k) == {t \in Z : Cardinality(up(t)) >= k}
           a == Announced(r, ip)
<1>1. r.arp \in Seq(S) /\ (\A e \in S : e.time \in Int) /\ G \subseteq S
  BY CapturesAssumption
<1> DEFINE V == S \cap G
<1>2. v \in Seq(V) /\ ToSet(v) = S \cap G
  <2> HIDE DEF G, S
  <2>1. v \in Seq(S \cap G) /\ ToSet(v) = ToSet(r.arp) \cap G
    BY <1>1, ThoseType, ThoseAre
  <2> QED BY <2>1 DEF S
<1>3. a = [k \in DOMAIN v |-> Min(late(k))]
  BY DEF Announced
<1> HIDE DEF G, v
<1>4. Len(v) \in Nat /\ DOMAIN v = 1..Len(v) /\ (\A i \in DOMAIN v : v[i] \in V)
  <2> HIDE DEF V
  <2> QED BY <1>2
<1>5. \A i \in DOMAIN v : v[i].time \in Int /\ v[i].time \in Z
  BY <1>1, <1>4 DEF ToSet
<1>6. IsFiniteSet(Z) /\ Z \subseteq Int
  <2> DEFINE D == 1..Len(v)
             g == [i \in D |-> v[i].time]
  <2>1. IsFiniteSet(D)
    BY <1>4, FS_Interval
  <2>2. Z = {g[i] : i \in D}
    BY <1>4 DEF ToSet
  <2>3. Z \subseteq Int
    BY <1>5 DEF ToSet
  <2> HIDE DEF D, g, Z
  <2> QED BY <2>1, <2>2, <2>3, ImageFinite
<1> HIDE DEF Z, S, V
<1>7. ASSUME NEW k \in DOMAIN v PROVE late(k) # {}
  <2>1. Z # {}
    BY <1>5, <1>7
  <2>2. PICK t \in Z : \A y \in Z : y <= t
    BY <1>6, <2>1, Extremes
  <2>3. up(t) = 1..Len(v)
    BY <1>4, <1>5, <2>2
  <2>6. \A n \in Int : 1 <= n => Cardinality(1..n) = n
    BY FS_Interval
  <2>4. Cardinality(1..Len(v)) = Len(v) /\ k <= Len(v)
    BY <1>4, <1>7, <2>6
  <2> HIDE DEF up
  <2>5. Cardinality(up(t)) >= k
    BY <1>4, <1>7, <2>3, <2>4
  <2> QED BY <2>2, <2>5
<1>8. \A t : Cardinality(up(t)) \in Nat
  <2> TAKE t
  <2> DEFINE U == up(t)
             D == 1..Len(v)
  <2>1. U \in SUBSET D /\ IsFiniteSet(D)
    BY <1>4, FS_Interval
  <2> HIDE DEF U, D
  <2>2. Cardinality(U) \in Nat
    BY <2>1, FS_Subset, FS_CardinalityType
  <2> QED BY <2>2 DEF U
<1> HIDE DEF up
<1>9. ASSUME NEW k \in DOMAIN v PROVE Min(late(k)) \in late(k) /\ \A y \in late(k) : Min(late(k)) <= y
  <2> DEFINE L == late(k)
  <2>1. L \in SUBSET Z /\ L # {}
    BY <1>7, <1>9
  <2> HIDE DEF L
  <2>2. IsFiniteSet(L) /\ L \subseteq Int
    BY <1>6, <2>1, FS_Subset
  <2>3. Min(L) \in L /\ \A y \in L : Min(L) <= y
    BY <2>1, <2>2, Extremes
  <2> QED BY <2>3 DEF L
<1>10. ASSUME NEW k \in DOMAIN v, NEW l \in DOMAIN v, k <= l PROVE late(l) \subseteq late(k)
  <2> SUFFICES ASSUME NEW t \in Z, Cardinality(up(t)) >= l PROVE Cardinality(up(t)) >= k
    OBVIOUS
  <2>1. k \in Int /\ l \in Int /\ Cardinality(up(t)) \in Int
    BY <1>4, <1>8
  <2> QED BY <1>10, <2>1
<1>11. \A k \in DOMAIN v : late(k) \subseteq Int
  BY <1>6
<1> HIDE DEF late, a
<1>12. \A k \in 1..Len(v) : Min(late(k)) \in Int
  BY <1>4, <1>9, <1>11
<1>13. DOMAIN a = 1..Len(v) /\ a = [k \in 1..Len(v) |-> a[k]] /\ \A k \in 1..Len(v) : a[k] = Min(late(k))
  BY <1>3, <1>4
<1>14. a \in Seq(Int)
  BY <1>4, <1>12, <1>13
<1>15. Ordered(a)
  <2> SUFFICES ASSUME NEW k \in DOMAIN a, NEW l \in DOMAIN a, k <= l PROVE a[k] <= a[l]
    BY <1>14 DEF Ordered
  <2>1. k \in DOMAIN v /\ l \in DOMAIN v
    BY <1>4, <1>13
  <2>2. Min(late(l)) \in late(k)
    BY <1>9, <1>10, <2>1
  <2>3. Min(late(k)) <= Min(late(l))
    BY <1>9, <2>1, <2>2
  <2> QED BY <1>4, <1>13, <2>1, <2>3
<1>16. G = {} => DOMAIN a = {}
  <2> SUFFICES ASSUME G = {} PROVE DOMAIN v = {}
    BY <1>4, <1>13
  <2>1. V = {}
    BY DEF V
  <2> QED BY <1>4, <2>1
<1>17. (\A e \in ToSet(r.arp) : ~(e.gratuitous /\ e.ip = ip)) => G = {}
  BY DEF G
<1> QED BY <1>15, <1>16, <1>17 DEF a

-----------------------------------------------------------------------------
(* More of Those *)

\* Of one element.
LEMMA ThoseSingle == ASSUME NEW T, NEW x PROVE Those(<<x>>, T) = If(x \in T, x)
<1> DEFINE S == {x}
           e == <<>>
<1>1. x \in S /\ e \in Seq(S) /\ Append(e, x) = <<x>>
  OBVIOUS
<1>2. If(x \in T, x) \in Seq(S)
  <2>1. <<x>> \in Seq(S) /\ e \in Seq(S) /\ If(x \in T, x) \in {<<x>>, e}
    BY DEF If
  <2> HIDE DEF S, e
  <2> QED BY <2>1
<1> HIDE DEF S
<1>3. Those(Append(e, x), T) = Those(e, T) \o If(x \in T, x)
  <2> HIDE DEF e
  <2> QED BY <1>1, ThoseAppend
<1>4. <<>> \o If(x \in T, x) = If(x \in T, x)
  BY <1>2, ConcatEmptySeq
<1> QED BY <1>1, <1>3, <1>4, ThoseEmpty

\* What is taken out of two sequences, one after the other.
LEMMA ThoseConcat ==
  ASSUME NEW S, NEW T, NEW s \in Seq(S), NEW t \in Seq(S)
  PROVE  Those(s \o t, T) = Those(s, T) \o Those(t, T)
<1> DEFINE Good(u) == Those(s \o u, T) = Those(s, T) \o Those(u, T)
           B == {m \in Nat : \E u \in Seq(S) : Len(u) = m /\ ~Good(u)}
<1>0. \A u \in Seq(S) : Those(u, T) \in Seq(S)
  <2> SUFFICES ASSUME NEW u \in Seq(S) PROVE Those(u, T) \in Seq(S)
    OBVIOUS
  <2> DEFINE V == S \cap T
  <2>1. Those(u, T) \in Seq(V) /\ V \subseteq S
    BY ThoseType
  <2> HIDE DEF V
  <2> QED BY <2>1
<1>1. B = {}
  <2> SUFFICES ASSUME B # {} PROVE FALSE
    OBVIOUS
  <2>1. PICK m \in B : \A j \in B : m <= j
    <3>1. B \subseteq Nat
      OBVIOUS
    <3> HIDE DEF B
    <3> QED BY <3>1, LeastNumber
  <2>2. PICK u \in Seq(S) : Len(u) = m /\ ~Good(u)
    BY <2>1
  <2>3. u # <<>>
    <3>1. s \o <<>> = s
      BY ConcatEmptySeq
    <3>2. Those(s, T) \o <<>> = Those(s, T)
      BY <1>0, ConcatEmptySeq
    <3>3. Good(<<>>)
      BY <3>1, <3>2, ThoseEmpty
    <3> HIDE DEF Good
    <3> QED BY <2>2, <3>3
  <2>4. PICK v \in Seq(S), x \in S : u = Append(v, x)
    BY <2>3, SequenceEmptyOrAppend
  <2>5. Len(v) \in Nat /\ m = Len(v) + 1
    BY <2>2, <2>4, AppendProperties, LenProperties
  <2>6. Good(v)
    <3>1. Len(v) \notin B
      <4> HIDE DEF B
      <4> QED BY <2>1, <2>5
    <3> HIDE DEF Good
    <3> QED BY <2>4, <2>5, <3>1
  <2> DEFINE one == If(x \in T, x)
             sv == s \o v
  <2>7. one \in Seq(S)
    BY DEF If
  <2>8. sv \in Seq(S) /\ s \o u = Append(sv, x)
    <3> DEFINE l == <<x>>
    <3>1. sv \in Seq(S) /\ l \in Seq(S)
      BY <2>4, ConcatProperties
    <3> HIDE DEF sv, l, B, Good
    <3>2. Append(sv, x) = sv \o l /\ u = v \o l
      BY <2>4, <3>1, AppendIsConcat DEF l
    <3>4. v \in Seq(S) /\ l \in Seq(S)
      BY <2>4, <3>1
    <3>3. (s \o v) \o l = s \o (v \o l)
      BY <3>4, ConcatAssociative
    <3> QED BY <3>1, <3>2, <3>3 DEF sv
  <2> HIDE DEF one, sv
  <2>9. Those(Append(sv, x), T) = Those(sv, T) \o one /\ Those(u, T) = Those(v, T) \o one
    BY <2>4, <2>8, ThoseAppend DEF one
  <2>10. (Those(s, T) \o Those(v, T)) \o one = Those(s, T) \o (Those(v, T) \o one)
    <3> DEFINE p == Those(s, T)
               q == Those(v, T)
    <3>1. p \in Seq(S)
      BY <1>0
    <3>3. q \in Seq(S)
      BY <1>0, <2>4
    <3> HIDE DEF p, q, B, Good
    <3>2. (p \o q) \o one = p \o (q \o one)
      BY <2>7, <3>1, <3>3, ConcatAssociative, SMTT(60)
    <3> QED BY <3>2 DEF p, q
  <2>11. Those(sv, T) = Those(s, T) \o Those(v, T)
    BY <2>6 DEF sv
  <2>12. Those(s \o u, T) = Those(s, T) \o Those(u, T)
    BY <2>8, <2>9, <2>10, <2>11
  <2> QED BY <2>2, <2>12
<1>2. Len(t) \in Nat
  BY LenProperties
<1> HIDE DEF Good
<1>3. Good(t)
  BY <1>1, <1>2
<1> QED BY <1>3 DEF Good

\* Nothing is taken out of a sequence that has nothing of it.
LEMMA ThoseNone ==
  ASSUME NEW S, NEW T, NEW s \in Seq(S), \A x \in S : x \notin T
  PROVE  Those(s, T) = <<>>
<1> DEFINE V == S \cap T
           t == Those(s, T)
<1>1. t \in Seq(V) /\ V = {}
  BY ThoseType
<1> HIDE DEF V, t
<1>2. Len(t) \in Nat /\ \A i \in 1..Len(t) : t[i] \in V
  BY <1>1
<1>3. Len(t) = 0
  <2> SUFFICES ASSUME Len(t) # 0 PROVE FALSE
    OBVIOUS
  <2>1. 1 \in 1..Len(t)
    BY <1>2
  <2> QED BY <1>1, <1>2, <2>1
<1>4. t = <<>>
  BY <1>1, <1>3
<1> QED BY <1>4 DEF t

\* Just x is taken out of a sequence that has it once and nothing else of it.
LEMMA ThoseOne ==
  ASSUME NEW S, NEW T, NEW s \in Seq(S), NEW x, ToSet(s) \cap T = {x},
         \A i, j \in DOMAIN s : i < j => s[i] # s[j]
  PROVE  Those(s, T) = <<x>>
<1> DEFINE V == S \cap T
           t == Those(s, T)
<1>1. t \in Seq(V) /\ ToSet(t) = {x} /\ InOrderOf(t, s)
  BY ThoseType, ThoseAre
<1> HIDE DEF V, t
<1>2. Len(t) \in Nat /\ DOMAIN t = 1..Len(t) /\ t = [i \in 1..Len(t) |-> t[i]]
  BY <1>1
<1>3. \A i \in 1..Len(t) : t[i] = x
  BY <1>1, <1>2 DEF ToSet
<1>4. Len(t) # 0
  BY <1>1, <1>2 DEF ToSet
<1>5. ~(Len(t) >= 2)
  <2> SUFFICES ASSUME Len(t) >= 2 PROVE FALSE
    OBVIOUS
  <2>1. 1 \in DOMAIN t /\ 2 \in DOMAIN t /\ 1 < 2 /\ t[1] = x /\ t[2] = x
    BY <1>2, <1>3
  <2>2. PICK k \in DOMAIN s, l \in DOMAIN s : k < l /\ t[1] = s[k] /\ t[2] = s[l]
    BY <1>1, <2>1 DEF InOrderOf
  <2> QED BY <2>1, <2>2
<1>6. Len(t) = 1
  BY <1>2, <1>4, <1>5
<1>7. t = <<x>>
  BY <1>2, <1>3, <1>6
<1> QED BY <1>7 DEF t

\* What is taken out of what is taken out.
LEMMA ThoseThose ==
  ASSUME NEW S, NEW T, NEW U, NEW s \in Seq(S)
  PROVE  Those(Those(s, T), U) = Those(s, T \cap U)
<1> DEFINE W == T \cap U
           Good(u) == Those(Those(u, T), U) = Those(u, W)
           B == {m \in Nat : \E u \in Seq(S) : Len(u) = m /\ ~Good(u)}
<1>0. \A u \in Seq(S) : \A X : Those(u, X) \in Seq(S)
  <2> SUFFICES ASSUME NEW u \in Seq(S), NEW X PROVE Those(u, X) \in Seq(S)
    OBVIOUS
  <2> DEFINE V == S \cap X
  <2>1. Those(u, X) \in Seq(V) /\ V \subseteq S
    BY ThoseType
  <2> HIDE DEF V
  <2> QED BY <2>1
<1>1. B = {}
  <2> SUFFICES ASSUME B # {} PROVE FALSE
    OBVIOUS
  <2>1. PICK m \in B : \A j \in B : m <= j
    <3>1. B \subseteq Nat
      OBVIOUS
    <3> HIDE DEF B
    <3> QED BY <3>1, LeastNumber
  <2>2. PICK u \in Seq(S) : Len(u) = m /\ ~Good(u)
    BY <2>1
  <2>3. u # <<>>
    <3>1. Good(<<>>)
      BY ThoseEmpty
    <3> HIDE DEF Good
    <3> QED BY <2>2, <3>1
  <2>4. PICK v \in Seq(S), x \in S : u = Append(v, x)
    BY <2>3, SequenceEmptyOrAppend
  <2>5. Len(v) \in Nat /\ m = Len(v) + 1
    BY <2>2, <2>4, AppendProperties, LenProperties
  <2>6. Good(v)
    <3>1. Len(v) \notin B
      <4> HIDE DEF B
      <4> QED BY <2>1, <2>5
    <3> HIDE DEF Good
    <3> QED BY <2>4, <2>5, <3>1
  <2> DEFINE one(X) == If(x \in X, x)
  <2>7. \A X : one(X) \in Seq(S)
    BY DEF If
  <2>8. Those(one(T), U) = one(W)
    <3>1. CASE x \in T
      <4>1. one(T) = <<x>> /\ one(U) = one(W)
        BY <3>1 DEF If
      <4> QED BY <4>1, ThoseSingle
    <3>2. CASE x \notin T
      <4>1. one(T) = <<>> /\ one(W) = <<>>
        BY <3>2 DEF If
      <4> QED BY <4>1, ThoseEmpty
    <3> QED BY <3>1, <3>2
  <2> HIDE DEF one, W
  <2>9. Those(u, T) = Those(v, T) \o one(T) /\ Those(u, W) = Those(v, W) \o one(W)
    BY <2>4, ThoseAppend DEF one
  <2>10. Those(Those(v, T) \o one(T), U) = Those(Those(v, T), U) \o Those(one(T), U)
    <3> DEFINE p == Those(v, T)
               q == one(T)
    <3>1. p \in Seq(S) /\ q \in Seq(S)
      BY <1>0, <2>4, <2>7
    <3> HIDE DEF p, q
    <3>2. Those(p \o q, U) = Those(p, U) \o Those(q, U)
      BY <3>1, ThoseConcat
    <3> QED BY <3>2 DEF p, q
  <2>11. Those(Those(u, T), U) = Those(u, W)
    BY <2>6, <2>8, <2>9, <2>10
  <2> QED BY <2>2, <2>11
<1>2. Len(s) \in Nat
  BY LenProperties
<1> HIDE DEF Good
<1>3. Good(s)
  BY <1>1, <1>2
<1> QED BY <1>3 DEF Good

\* Sequences of one element each flatten to the sequence of these elements.
LEMMA FlattenSingles ==
  ASSUME NEW S, NEW s \in Seq(S)
  PROVE  FlattenSeq([i \in DOMAIN s |-> <<s[i]>>]) = s
<1> DEFINE ones(u) == [i \in DOMAIN u |-> <<u[i]>>]
           Good(u) == FlattenSeq(ones(u)) = u
           B == {m \in Nat : \E u \in Seq(S) : Len(u) = m /\ ~Good(u)}
           W == Seq(S)
<1>1. B = {}
  <2> SUFFICES ASSUME B # {} PROVE FALSE
    OBVIOUS
  <2>1. PICK m \in B : \A j \in B : m <= j
    <3>1. B \subseteq Nat
      OBVIOUS
    <3> HIDE DEF B
    <3> QED BY <3>1, LeastNumber
  <2>2. PICK u \in Seq(S) : Len(u) = m /\ ~Good(u)
    BY <2>1
  <2>3. u # <<>>
    <3>1. ones(<<>>) = <<>>
      OBVIOUS
    <3>2. Good(<<>>)
      BY <3>1, FlattenEmpty
    <3> HIDE DEF Good
    <3> QED BY <2>2, <3>2
  <2>4. PICK v \in Seq(S), x \in S : u = Append(v, x)
    BY <2>3, SequenceEmptyOrAppend
  <2>5. Len(v) \in Nat /\ m = Len(v) + 1
    BY <2>2, <2>4, AppendProperties, LenProperties
  <2>6. Good(v)
    <3>1. Len(v) \notin B
      <4> HIDE DEF B
      <4> QED BY <2>1, <2>5
    <3> HIDE DEF Good
    <3> QED BY <2>4, <2>5, <3>1
  <2> DEFINE one == <<x>>
             ov == ones(v)
  <2>7. one \in W /\ \A i \in 1..Len(v) : <<v[i]>> \in W
    BY <2>4
  <2> HIDE DEF W
  <2>13. /\ DOMAIN v = 1..Len(v) /\ DOMAIN u = 1..(Len(v) + 1)
         /\ (\A i \in 1..Len(v) : u[i] = v[i]) /\ u[Len(v) + 1] = x
    BY <2>2, <2>4, <2>5
  <2>14. ov \in Seq(W) /\ Len(ov) = Len(v) /\ \A i \in 1..Len(v) : ov[i] = <<v[i]>>
    BY <2>5, <2>7, <2>13
  <2>8. ov \in Seq(W) /\ ones(u) = Append(ov, one)
    <3> DEFINE o == ones(u)
               more == Append(ov, one)
    <3>0. PICK n \in Nat, k \in Nat : n = Len(v) /\ k = n + 1 /\ k \in 1..k /\ \A i \in 1..k : i = k \/ i \in 1..n
      BY <2>5
    <3>1. DOMAIN o = 1..k /\ \A i \in 1..k : o[i] = <<u[i]>>
      BY <2>13, <3>0
    <3>2. o = [i \in 1..k |-> o[i]]
      BY <2>13, <3>0
    <3>3. more \in Seq(W) /\ Len(more) = k /\ more[k] = one /\ \A i \in 1..n : more[i] = ov[i]
      <4> HIDE DEF ov, one
      <4> QED BY <2>7, <2>14, <3>0, AppendProperties
    <3>4. more = [i \in 1..k |-> more[i]]
      <4> HIDE DEF more
      <4> QED BY <3>3
    <3> HIDE DEF more, o, ov
    <3>5. \A i \in 1..k : o[i] = more[i]
      <4> SUFFICES ASSUME NEW i \in 1..k PROVE o[i] = more[i]
        OBVIOUS
      <4>1. CASE i = k
        <5>1. o[k] = one
          BY <2>13, <3>0, <3>1
        <5> QED BY <3>3, <4>1, <5>1
      <4>2. CASE i \in 1..n
        BY <2>13, <2>14, <3>0, <3>1, <3>3, <4>2
      <4> QED BY <3>0, <4>1, <4>2
    <3>6. o = more
      BY <3>2, <3>4, <3>5
    <3> QED BY <2>14, <3>6 DEF o, more
  <2> HIDE DEF one, ov, ones
  <2>9. FlattenSeq(Append(ov, one)) = FlattenSeq(ov) \o one
    BY <2>7, <2>8, FlattenAppend DEF W
  <2>10. v \o one = Append(v, x)
    BY <2>4 DEF one
  <2>11. FlattenSeq(ov) = v
    BY <2>6 DEF ov
  <2>12. FlattenSeq(ones(u)) = u
    BY <2>4, <2>8, <2>9, <2>10, <2>11
  <2> QED BY <2>2, <2>12
<1>2. Len(s) \in Nat
  BY LenProperties
<1> HIDE DEF Good
<1>3. Good(s)
  BY <1>1, <1>2
<1> QED BY <1>3 DEF Good

-----------------------------------------------------------------------------
(* The ARP bursts among the findings *)

\* Reports a burst of an address.
Burst(x, ip) == x.kind = "arp burst" /\ x.hosts = <<ip>>

BurstsOf(s, ip) == Those(s, {x \in ToSet(s) : Burst(x, ip)})

\* What the pass reports of an address, and the addresses it reports.
Found(r, ip) == Finding(Medium, "arp burst", MaxBurst(Announced(r, ip), Limits.burstWindow), <<ip>>)

Bursting(r) ==
  {e.ip : e \in {x \in ToSet(r.arp) :
    x.gratuitous /\ MaxBurst(Announced(r, x.ip), Limits.burstWindow) >= Limits.burst}}

\* The bursts may be picked out of any larger set.
LEMMA BurstsIn ==
  ASSUME NEW S, NEW s \in Seq(S), NEW ip
  PROVE  BurstsOf(s, ip) = Those(s, {x \in S : Burst(x, ip)})
<1> DEFINE T == {x \in ToSet(s) : Burst(x, ip)}
           V == {x \in S : Burst(x, ip)}
<1>1. \A i \in DOMAIN s : s[i] \in T <=> s[i] \in V
  BY DEF ToSet
<1> HIDE DEF T, V
<1>2. Those(s, T) = Those(s, V)
  BY <1>1, ThoseSame
<1> QED BY <1>2 DEF BurstsOf, T, V

\* The bursts of two sequences, one after the other.
LEMMA BurstsConcat ==
  ASSUME NEW S, NEW s \in Seq(S), NEW t \in Seq(S), NEW ip
  PROVE  BurstsOf(s \o t, ip) = BurstsOf(s, ip) \o BurstsOf(t, ip)
<1> DEFINE V == {x \in S : Burst(x, ip)}
           u == s \o t
<1>1. u \in Seq(S)
  BY ConcatProperties
<1>2. \A v \in Seq(S) : BurstsOf(v, ip) = Those(v, V)
  BY BurstsIn
<1>3. Those(u, V) = Those(s, V) \o Those(t, V)
  <2> HIDE DEF V
  <2> QED BY ThoseConcat
<1> HIDE DEF V, u
<1> QED BY <1>1, <1>2, <1>3 DEF u

\* The other detectors report none.
LEMMA NoBursts ==
  ASSUME NEW s, Graded(s, Others), NEW ip
  PROVE  BurstsOf(s, ip) = <<>>
<1> DEFINE S == ToSet(s)
           V == {x \in S : Burst(x, ip)}
<1>1. s \in Seq(S) /\ \A x \in S : x.kind \in Others
  BY DEF Graded, Fine
<1>2. "arp burst" \notin Others
  BY DEF Others
<1>3. \A x \in S : x \notin V
  BY <1>1, <1>2 DEF Burst
<1> HIDE DEF S
<1>4. BurstsOf(s, ip) = Those(s, V)
  BY <1>1, BurstsIn
<1> HIDE DEF V
<1> QED BY <1>1, <1>3, <1>4, ThoseNone

\* In whatever order they are reported, there is one for each address.
LEMMA BurstsReported ==
  ASSUME NEW r \in Captures, NEW o \in Orders(ArpBursts(r)), NEW ip
  PROVE  BurstsOf(o, ip) = If(ip \in Bursting(r), Found(r, ip))
<1> DEFINE W == Bursting(r)
           Q == {<<Found(r, i)>> : i \in W}
           n == Cardinality(Q)
           S == {Found(r, i) : i \in W}
<1>1. ArpBursts(r) = Q
  BY DEF ArpBursts, Each, Bursting, Found
<1>2. IsFiniteSet(Q)
  BY <1>1, EventPasses DEF GradedPass
<1>3. Q \ {<<>>} = Q
  OBVIOUS
<1> HIDE DEF W
<1>4. PICK f \in SetToSeqs(Q) : o = FlattenSeq(f)
  BY <1>1, <1>3 DEF Orders
<1>5. f \in [1..n -> Q] /\ n \in Nat /\ \A i, j \in 1..n : i # j => f[i] # f[j]
  <2>1. f \in [1..n -> Q] /\ \A i, j \in 1..n : i # j => f[i] # f[j]
    BY <1>4 DEF SetToSeqs
  <2>2. n \in Nat
    <3> HIDE DEF Q
    <3> QED BY <1>2, FS_CardinalityType
  <2> QED BY <2>1, <2>2
<1>6. \A y \in Q : \E i \in 1..n : f[i] = y
  <2> HIDE DEF Q, n
  <2>1. f \in Injection(1..n, Q)
    BY <1>5 DEF Injection, IsInjective
  <2>2. Cardinality(1..n) = n
    <3>1. \A k \in Int : Cardinality(1..k) = IF 1 > k THEN 0 ELSE k - 1 + 1
      BY FS_Interval
    <3> QED BY <1>5, <3>1
  <2>3. f \in Surjection(1..n, Q)
    BY <1>2, <2>1, <2>2, FS_Injection DEF n
  <2> QED BY <2>3 DEF Surjection
<1> DEFINE x == [i \in 1..n |-> f[i][1]]
<1>7. \A i \in 1..n : f[i] = <<x[i]>> /\ x[i] \in S
  BY <1>5
<1>8. x \in Seq(S) /\ DOMAIN x = 1..n /\ f = [i \in DOMAIN x |-> <<x[i]>>]
  <2>1. \A i \in 1..n : x[i] \in S
    BY <1>7
  <2>2. x = [i \in 1..n |-> x[i]] /\ f = [i \in 1..n |-> f[i]] /\ DOMAIN x = 1..n
    BY <1>5
  <2>5. n \in Nat
    BY <1>5
  <2> HIDE DEF x, S, n
  <2>3. x \in Seq(S)
    BY <2>1, <2>2, <2>5
  <2> HIDE DEF n
  <2>4. [i \in 1..n |-> f[i]] = [i \in 1..n |-> <<x[i]>>]
    BY <1>7
  <2> QED BY <2>2, <2>3, <2>4
<1>9. \A i \in W : \E k \in 1..n : x[k] = Found(r, i)
  <2> SUFFICES ASSUME NEW i \in W PROVE \E k \in 1..n : x[k] = Found(r, i)
    OBVIOUS
  <2>1. <<Found(r, i)>> \in Q
    OBVIOUS
  <2>2. PICK k \in 1..n : f[k] = <<Found(r, i)>>
    <3> HIDE DEF Q
    <3> QED BY <1>6, <2>1
  <2>3. x[k] = Found(r, i)
    BY <2>2
  <2> QED BY <2>3
<1> HIDE DEF x, Q, n
<1>10. o = x
  <2>1. FlattenSeq([i \in DOMAIN x |-> <<x[i]>>]) = x
    <3> HIDE DEF S
    <3> QED BY <1>8, FlattenSingles
  <2> QED BY <1>4, <1>8, <2>1
<1>11. \A i, j \in DOMAIN x : i < j => x[i] # x[j]
  <2> SUFFICES ASSUME NEW i \in 1..n, NEW j \in 1..n, i < j, x[i] = x[j] PROVE FALSE
    BY <1>8
  <2>1. f[i] = f[j]
    BY <1>7
  <2>2. i # j
    BY <1>5
  <2> QED BY <1>5, <2>1, <2>2
<1>12. \A i : Found(r, i).kind = "arp burst" /\ Found(r, i).hosts = <<i>>
  BY DEF Found, Finding
<1> DEFINE V == {y \in S : Burst(y, ip)}
<1>13. BurstsOf(x, ip) = Those(x, V)
  <2> HIDE DEF S
  <2> QED BY <1>8, BurstsIn
<1>14. \A i : Burst(Found(r, i), ip) <=> i = ip
  <2> SUFFICES ASSUME NEW i PROVE Burst(Found(r, i), ip) <=> i = ip
    OBVIOUS
  <2>1. <<i>> = <<ip>> <=> i = ip
    OBVIOUS
  <2> QED BY <1>12, <2>1 DEF Burst
<1>15. CASE ip \in W
  <2>1. ToSet(x) \cap V = {Found(r, ip)}
    <3>1. \A y \in V : y = Found(r, ip)
      BY <1>14
    <3>2. Found(r, ip) \in V
      BY <1>14, <1>15
    <3>3. Found(r, ip) \in ToSet(x)
      BY <1>8, <1>9, <1>15 DEF ToSet
    <3> HIDE DEF V
    <3> QED BY <3>1, <3>2, <3>3
  <2>2. Those(x, V) = <<Found(r, ip)>>
    <3> HIDE DEF S, V
    <3> QED BY <1>8, <1>11, <2>1, ThoseOne
  <2> QED BY <1>10, <1>13, <1>15, <2>2 DEF If, W
<1>16. CASE ip \notin W
  <2>1. \A y \in S : y \notin V
    BY <1>14, <1>16
  <2>2. Those(x, V) = <<>>
    <3> HIDE DEF S, V
    <3> QED BY <1>8, <2>1, ThoseNone
  <2> QED BY <1>10, <1>13, <1>16, <2>2 DEF If, W
<1> QED BY <1>15, <1>16

\* Sorting leaves the bursts of an address as they were found: all of them
\* are of one severity.
LEMMA BurstsRanked ==
  ASSUME NEW d, d \in Seq(ToSet(d)), NEW ip,
         \A x \in ToSet(d) : Burst(x, ip) => x.severity = Medium
  PROVE  BurstsOf(Ranks(d), ip) = BurstsOf(d, ip)
<1> DEFINE S == ToSet(d)
           V == {x \in S : Burst(x, ip)}
           T(v) == {x \in S : x.severity = v}
           found == Those(d, V)
<1>1. \A v : Rank(d, v) \in Seq(S)
  <2> SUFFICES ASSUME NEW v PROVE Rank(d, v) \in Seq(S)
    OBVIOUS
  <2> HIDE DEF S
  <2>1. Rank(d, v) \in Seq({x \in S : x.severity = v})
    BY RankType DEF S
  <2> QED BY <2>1
<1>2. \A v : Those(Rank(d, v), V) = Those(d, T(v) \cap V)
  <2> SUFFICES ASSUME NEW v PROVE Those(Rank(d, v), V) = Those(d, T(v) \cap V)
    OBVIOUS
  <2>1. Rank(d, v) = Those(d, T(v))
    BY DEF Rank
  <2>2. d \in Seq(S)
    OBVIOUS
  <2> HIDE DEF T, V, S
  <2> QED BY <2>1, <2>2, ThoseThose
<1>3. Those(Rank(d, Medium), V) = found
  <2> DEFINE U == T(Medium) \cap V
  <2>1. \A i \in DOMAIN d : d[i] \in U <=> d[i] \in V
    OBVIOUS
  <2> HIDE DEF U, V
  <2>2. Those(d, U) = Those(d, V)
    BY <2>1, ThoseSame
  <2> QED BY <1>2, <2>2 DEF U
<1>4. \A v \in {Critical, High, Low, Info} : Those(Rank(d, v), V) = <<>>
  <2> SUFFICES ASSUME NEW v \in {Critical, High, Low, Info} PROVE Those(Rank(d, v), V) = <<>>
    OBVIOUS
  <2> DEFINE U == T(v) \cap V
  <2>1. v # Medium
    BY DEF Critical, High, Medium, Low, Info
  <2>2. \A x \in S : x \notin U
    BY <2>1
  <2>3. d \in Seq(S)
    OBVIOUS
  <2> HIDE DEF U, V, S
  <2>4. Those(d, U) = <<>>
    BY <2>2, <2>3, ThoseNone
  <2> QED BY <1>2, <2>4 DEF U
<1>5. found \in Seq(S)
  <2> DEFINE W == S \cap V
  <2>1. W \subseteq S
    OBVIOUS
  <2>2. d \in Seq(S)
    OBVIOUS
  <2> HIDE DEF V, S
  <2>3. Those(d, V) \in Seq(W)
    BY <2>2, ThoseType
  <2> HIDE DEF W
  <2> QED BY <2>1, <2>3
<1> DEFINE c == Rank(d, Critical)
           h == Rank(d, High)
           m == Rank(d, Medium)
           l == Rank(d, Low)
           i == Rank(d, Info)
<1>6. BurstsOf(d, ip) = found
  BY DEF BurstsOf
<1>7. Ranks(d) = c \o h \o m \o l \o i
  BY DEF Ranks
<1>8. Ranks(d) \in Seq(S) => BurstsOf(Ranks(d), ip) = Those(Ranks(d), V)
  <2> HIDE DEF S
  <2> QED BY BurstsIn
<1> HIDE DEF S, V, T
<1>9. c \in Seq(S) /\ h \in Seq(S) /\ m \in Seq(S) /\ l \in Seq(S) /\ i \in Seq(S)
  BY <1>1
<1>10. Those(c, V) = <<>> /\ Those(h, V) = <<>> /\ Those(m, V) = found /\ Those(l, V) = <<>> /\ Those(i, V) = <<>>
  BY <1>3, <1>4
<1> HIDE DEF c, h, m, l, i, found
<1>11. c \o h \in Seq(S) /\ Those(c \o h, V) = <<>>
  <2>1. Those(c \o h, V) = Those(c, V) \o Those(h, V)
    BY <1>9, ThoseConcat
  <2> QED BY <1>9, <1>10, <2>1, ConcatProperties
<1> DEFINE ch == c \o h
<1>12. ch \o m \in Seq(S) /\ Those(ch \o m, V) = found
  <2>0. ch \in Seq(S) /\ Those(ch, V) = <<>>
    BY <1>11
  <2> HIDE DEF ch
  <2>1. Those(ch \o m, V) = Those(ch, V) \o Those(m, V)
    BY <1>9, <2>0, ThoseConcat
  <2>2. <<>> \o found = found
    BY <1>5, ConcatEmptySeq
  <2> QED BY <1>9, <1>10, <2>0, <2>1, <2>2, ConcatProperties
<1> DEFINE chm == ch \o m
<1>13. chm \o l \in Seq(S) /\ Those(chm \o l, V) = found
  <2>0. chm \in Seq(S) /\ Those(chm, V) = found
    BY <1>12
  <2> HIDE DEF chm
  <2>1. Those(chm \o l, V) = Those(chm, V) \o Those(l, V)
    BY <1>9, <2>0, ThoseConcat
  <2>2. found \o <<>> = found
    BY <1>5, ConcatEmptySeq
  <2> QED BY <1>9, <1>10, <2>0, <2>1, <2>2, ConcatProperties
<1> DEFINE chml == chm \o l
<1>14. chml \o i \in Seq(S) /\ Those(chml \o i, V) = found
  <2>0. chml \in Seq(S) /\ Those(chml, V) = found
    BY <1>13
  <2> HIDE DEF chml
  <2>1. Those(chml \o i, V) = Those(chml, V) \o Those(i, V)
    BY <1>9, <2>0, ThoseConcat
  <2>2. found \o <<>> = found
    BY <1>5, ConcatEmptySeq
  <2> QED BY <1>9, <1>10, <2>0, <2>1, <2>2, ConcatProperties
<1> QED BY <1>6, <1>7, <1>8, <1>14

-----------------------------------------------------------------------------
(* BurstIsLargest *)

\* Once the pass over the announcements is made, what has been found holds the
\* bursts it reports; nothing is sorted before.
BurstInv ==
  /\ \A ip \in {e.ip : e \in ToSet(result.arp)} :
       BurstsOf(detected, ip) = IF pass >= 5 THEN If(ip \in Bursting(result), Found(result, ip)) ELSE <<>>
  /\ Sorted => pass >= 5

\* No burst has been found when a run starts.
LEMMA BurstsInitially == Init => BurstInv
<1> SUFFICES ASSUME Init PROVE BurstInv
  OBVIOUS
<1>1. detected = <<>> /\ pass = 0 /\ step = "start" /\ result \in Captures
  BY DEF Init
<1>2. \A ip : BurstsOf(<<>>, ip) = <<>>
  BY ThoseEmpty DEF BurstsOf
<1> QED BY <1>1, <1>2 DEF BurstInv, Sorted

\* Every step keeps the bursts.
LEMMA BurstsKept == DetectInv /\ BurstInv /\ [Next]_vars => BurstInv'
<1> SUFFICES ASSUME DetectInv, BurstInv, [Next]_vars PROVE BurstInv'
  OBVIOUS
<1>0. UNCHANGED <<detected, pass, result>> /\ (Sorted' => Sorted) => BurstInv'
  BY DEF BurstInv
<1>1. CASE RunPass
  <2> DEFINE P == Passes(result, iocs)
  <2>1. PICK order \in Orders(P[pass + 1]) : detected' = detected \o order
    BY <1>1 DEF RunPass
  <2>2. pass < Len(P) /\ pass' = pass + 1 /\ UNCHANGED <<step, result, findings>> /\ step = "detect"
    BY <1>1 DEF RunPass
  <2>3. Len(P) = 19 /\ P[5] = ArpBursts(result)
    BY DEF Passes
  <2>4. pass + 1 \in 1..Len(P) /\ pass \in Nat /\ result \in Captures
    <3> HIDE DEF P
    <3> QED BY <2>2, <2>3 DEF DetectInv
  <2> DEFINE K == IF pass + 1 = 5 THEN Bursts ELSE Others
  <2>5. GradedPass(P[pass + 1], K)
    BY <2>4, PassesGraded
  <2> HIDE DEF P
  <2>6. Graded(order, K)
    <3> HIDE DEF K
    <3> QED BY <2>1, <2>5, GradedOrder
  <2> DEFINE S == ToSet(detected) \cup ToSet(order)
  <2>7. detected \in Seq(S) /\ order \in Seq(S)
    BY <2>6 DEF Graded, DetectInv
  <2> HIDE DEF S
  <2>8. \A ip : BurstsOf(detected', ip) = BurstsOf(detected, ip) \o BurstsOf(order, ip)
    BY <2>1, <2>7, BurstsConcat
  <2>9. ~Sorted'
    BY <2>2 DEF Sorted
  <2>10. \A c, x : <<>> \o If(c, x) = If(c, x) /\ If(c, x) \o <<>> = If(c, x)
    <3> SUFFICES ASSUME NEW c, NEW x PROVE <<>> \o If(c, x) = If(c, x) /\ If(c, x) \o <<>> = If(c, x)
      OBVIOUS
    <3> DEFINE X == {x}
               y == If(c, x)
    <3>1. y \in Seq(X)
      <4>1. y \in {<<x>>, <<>>}
        BY DEF If
      <4>2. <<x>> \in Seq(X) /\ <<>> \in Seq(X)
        OBVIOUS
      <4> HIDE DEF X, y
      <4> QED BY <4>1, <4>2
    <3> HIDE DEF X, y
    <3>2. <<>> \o y = y /\ y \o <<>> = y
      BY <3>1, ConcatEmptySeq
    <3> QED BY <3>2 DEF y
  <2>11. <<>> \o <<>> = <<>>
    OBVIOUS
  <2>12. ASSUME NEW ip \in {e.ip : e \in ToSet(result.arp)}
         PROVE  BurstsOf(detected', ip)
                  = IF pass' >= 5 THEN If(ip \in Bursting(result), Found(result, ip)) ELSE <<>>
    <3> DEFINE reported == If(ip \in Bursting(result), Found(result, ip))
    <3>1. BurstsOf(detected, ip) = IF pass >= 5 THEN reported ELSE <<>>
      BY DEF BurstInv
    <3>2. <<>> \o reported = reported /\ reported \o <<>> = reported
      BY <2>10
    <3> HIDE DEF reported
    <3>3. CASE pass + 1 = 5
      <4>1. BurstsOf(order, ip) = reported
        BY <2>1, <2>3, <2>4, <3>3, BurstsReported DEF reported
      <4>2. ~(pass >= 5) /\ pass' >= 5
        BY <2>2, <2>4, <3>3
      <4> QED BY <2>8, <3>1, <3>2, <4>1, <4>2 DEF reported
    <3>4. CASE pass + 1 # 5
      <4>1. BurstsOf(order, ip) = <<>>
        BY <2>6, <3>4, NoBursts
      <4>2. pass' >= 5 <=> pass >= 5
        BY <2>2, <2>4, <3>4
      <4> QED BY <2>8, <2>11, <3>1, <3>2, <4>1, <4>2 DEF reported
    <3> QED BY <3>3, <3>4
  <2> QED BY <2>2, <2>9, <2>12 DEF BurstInv
<1>2. CASE Sort
  <2>1. pass = 19
    BY <1>2 DEF Sort, Passes
  <2>2. UNCHANGED <<detected, pass, result>>
    BY <1>2 DEF Sort
  <2> QED BY <2>1, <2>2 DEF BurstInv
<1>3. CASE CannotRead \/ Prepare \/ Compute \/ LoadIOCs
  BY <1>0, <1>3 DEF CannotRead, Prepare, Compute, LoadIOCs, Failed, DetectInv, Sorted
<1>4. CASE SetupGeoIP \/ RunWHOIS \/ LookUp \/ BuildReport
  BY <1>0, <1>4 DEF SetupGeoIP, RunWHOIS, LookUp, BuildReport, Sorted
<1>5. CASE WriteDiagram \/ Unknown \/ WriteReport \/ WriteReportFails \/ NextFormat \/ Finish
  BY <1>0, <1>5 DEF WriteDiagram, Unknown, WriteReport, WriteReportFails, NextFormat, Finish, Failed,
                    Rendering, Sorted
<1>6. CASE UNCHANGED vars
  BY <1>0, <1>6 DEF vars, Sorted
<1> QED BY <1>1, <1>2, <1>3, <1>4, <1>5, <1>6 DEF Next

\* What the pass reports of an address is what any window over its
\* announcements holds at most, if that is enough.
LEMMA ReportedIs ==
  ASSUME NEW r \in Captures, NEW ip
  PROVE  LET times == Announced(r, ip)
             within(t) == Cardinality({k \in DOMAIN times : times[k] \in t..(t + Limits.burstWindow)})
             most == Max({0} \union {within(times[k]) : k \in DOMAIN times})
         IN  If(ip \in Bursting(r), Found(r, ip)) = If(most >= Limits.burst, Finding(Medium, "arp burst", most, <<ip>>))
<1> DEFINE times == Announced(r, ip)
           w == Limits.burstWindow
           most == Max({0} \union {Cardinality(Held(times, times[k], w)) : k \in DOMAIN times})
<1>1. w \in Nat /\ Limits.burst \in Nat \ {0}
  BY LimitsAssumption
<1>2. Ordered(times)
  BY AnnouncedIs
<1>3. MaxBurst(times, w) = most
  <2> HIDE DEF times, w
  <2> QED BY <1>1, <1>2, MaxBurstIs
<1>4. ip \in Bursting(r) <=> most >= Limits.burst
  <2>1. CASE \E e \in ToSet(r.arp) : e.gratuitous /\ e.ip = ip
    <3> HIDE DEF most
    <3> QED BY <1>3, <2>1 DEF Bursting
  <2>2. CASE \A e \in ToSet(r.arp) : ~(e.gratuitous /\ e.ip = ip)
    <3>1. DOMAIN times = {}
      BY <2>2, AnnouncedIs
    <3>2. most = Max({0})
      <4> HIDE DEF times
      <4> QED BY <3>1
    <3>3. Max({0}) = 0
      BY DEF Max
    <3>4. ip \notin Bursting(r)
      BY <2>2 DEF Bursting
    <3> HIDE DEF most
    <3> QED BY <1>1, <3>2, <3>3, <3>4
  <2> QED BY <2>1, <2>2
<1>5. Found(r, ip) = Finding(Medium, "arp burst", most, <<ip>>)
  <2> HIDE DEF most
  <2> QED BY <1>3 DEF Found
<1> HIDE DEF most
<1>6. If(ip \in Bursting(r), Found(r, ip)) = If(most >= Limits.burst, Finding(Medium, "arp burst", most, <<ip>>))
  BY <1>4, <1>5 DEF If
<1> QED BY <1>6 DEF most, Held

\* What the report says of the bursts is right.
LEMMA BurstsRight == DetectInv /\ BurstInv => BurstIsLargest
<1> SUFFICES ASSUME DetectInv, BurstInv, Sorted, NEW ip \in {e.ip : e \in ToSet(result.arp)}
             PROVE  LET times == Announced(result, ip)
                        within(t) == Cardinality({k \in DOMAIN times : times[k] \in t..(t + Limits.burstWindow)})
                        most == Max({0} \union {within(times[k]) : k \in DOMAIN times})
                    IN  Those(findings, {f \in ToSet(findings) : f.kind = "arp burst" /\ f.hosts = <<ip>>})
                          = If(most >= Limits.burst, Finding(Medium, "arp burst", most, <<ip>>))
  BY DEF BurstIsLargest
<1> DEFINE reported == If(ip \in Bursting(result), Found(result, ip))
           S == ToSet(detected)
           V == {x \in S : Burst(x, ip)}
<1>1. BurstsOf(detected, ip) = reported
  BY DEF BurstInv
<1>2. detected \in Seq(S) /\ result \in Captures
  BY DEF DetectInv, Graded
<1>3. \A x \in S : Burst(x, ip) => x.severity = Medium
  <2>1. ToSet(Those(detected, V)) = S \cap V
    <3> HIDE DEF V
    <3>1. ToSet(Those(detected, V)) = ToSet(detected) \cap V
      <4> HIDE DEF S
      <4> QED BY <1>2, ThoseAre
    <3> QED BY <3>1
  <2>2. BurstsOf(detected, ip) = Those(detected, V)
    BY DEF BurstsOf
  <2>3. ToSet(reported) \subseteq {Found(result, ip)}
    BY DEF If, ToSet
  <2>4. Found(result, ip).severity = Medium
    BY DEF Found, Finding
  <2> HIDE DEF S, reported
  <2> QED BY <1>1, <2>1, <2>2, <2>3, <2>4
<1>4. BurstsOf(Ranks(detected), ip) = BurstsOf(detected, ip)
  BY <1>2, <1>3, BurstsRanked
<1>5. findings = Ranks(detected)
  BY RankedWhenSorted
<1>6. BurstsOf(findings, ip) = reported
  BY <1>1, <1>4, <1>5
<1>7. BurstsOf(findings, ip) = Those(findings, {f \in ToSet(findings) : f.kind = "arp burst" /\ f.hosts = <<ip>>})
  BY DEF BurstsOf, Burst
<1> QED BY <1>2, <1>6, <1>7, ReportedIs

\* Whatever addresses announce themselves, whenever, and in whatever order the
\* bursts are found: each address whose announcements any window of the
\* configured length holds enough of is reported, once, with the largest
\* number any window holds, and no other is.
THEOREM FindsLargestBurst == Spec => []BurstIsLargest
<1>1. Init => DetectInv /\ BurstInv
  BY DetectInitially, BurstsInitially
<1>2. DetectInv /\ BurstInv /\ [Next]_vars => DetectInv' /\ BurstInv'
  BY DetectKept, BurstsKept
<1>3. DetectInv /\ BurstInv => BurstIsLargest
  BY BurstsRight
<1> QED BY <1>1, <1>2, <1>3, PTL DEF Spec

-----------------------------------------------------------------------------
(* TotalsAgree *)

\* What the rows of a table add up to.
Added(rows) == SumFunction([i \in DOMAIN rows |-> rows[i].bytes])

\* A flow's bytes are a number.
LEMMA BytesIn == ASSUME NEW r \in Captures PROVE IsFiniteSet(r.flows) /\ \A f \in r.flows : Bytes(f) \in Int
<1>1. \A f \in r.flows : f.bytesAB \in Nat /\ f.bytesBA \in Nat
  BY CapturesAssumption
<1>2. IsFiniteSet(r.flows)
  BY CapturesAssumption
<1> QED BY <1>1, <1>2 DEF Bytes

\* Rows that share out the flows add up to all of them.
LEMMA RowsAddUp ==
  ASSUME NEW F, IsFiniteSet(F), \A f \in F : Bytes(f) \in Int,
         NEW n \in Nat, NEW rows, DOMAIN rows = 1..n,
         NEW g, \A f \in F : g[f] \in 1..n,
         \A k \in 1..n : rows[k].bytes = Sum({f \in F : g[f] = k}, Bytes)
  PROVE  Added(rows) = Sum(F, Bytes)
<1> DEFINE K == 1..n
           v == [f \in F |-> Bytes(f)]
           part(k) == {f \in F : g[f] = k}
           parts == [k \in K |-> SumFunctionOnSet(v, part(k))]
           b == [k \in DOMAIN rows |-> rows[k].bytes]
<1>1. IsFiniteSet(K)
  BY FS_Interval
<1>2. \A f \in F : v[f] = Bytes(f) /\ v[f] \in Int
  OBVIOUS
<1>3. ASSUME NEW k \in K PROVE rows[k].bytes = SumFunctionOnSet(v, part(k))
  <2> DEFINE P == part(k)
             u == [f \in P |-> Bytes(f)]
  <2>1. P \in SUBSET F /\ \A f \in P : u[f] = v[f]
    OBVIOUS
  <2>2. Sum(part(k), Bytes) = SumFunctionOnSet(u, P)
    BY DEF Sum
  <2>3. rows[k].bytes = Sum(part(k), Bytes)
    BY <1>3
  <2> HIDE DEF P, u, v
  <2>4. IsFiniteSet(P)
    BY <2>1, FS_Subset
  <2>5. SumFunctionOnSet(u, P) = SumFunctionOnSet(v, P)
    BY <2>1, <2>4, SumSame
  <2> QED BY <2>2, <2>3, <2>5 DEF P
<1>4. b = parts
  <2>1. \A k \in K : rows[k].bytes = SumFunctionOnSet(v, part(k))
    BY <1>3
  <2> HIDE DEF v, part, K
  <2>2. DOMAIN rows = K
    BY DEF K
  <2> QED BY <2>1, <2>2
<1>5. SumFunctionOnSet([k \in K |-> SumFunctionOnSet(v, {f \in F : g[f] = k})], K) = SumFunctionOnSet(v, F)
  <2>1. \A f \in F : g[f] \in K
    OBVIOUS
  <2> HIDE DEF v, K
  <2> QED BY <1>1, <1>2, <2>1, SumParts
<1>6. SumFunctionOnSet(parts, K) = SumFunctionOnSet(v, F)
  BY <1>5
<1>7. Sum(F, Bytes) = SumFunctionOnSet(v, F)
  BY DEF Sum
<1>8. Added(rows) = SumFunctionOnSet(b, K)
  <2>1. DOMAIN b = K
    OBVIOUS
  <2>2. Added(rows) = SumFunctionOnSet(b, DOMAIN b)
    BY DEF Added, SumFunction
  <2> HIDE DEF b, K
  <2> QED BY <2>1, <2>2
<1> HIDE DEF parts, b
<1> QED BY <1>4, <1>6, <1>7, <1>8

\* A table that is not cut has every row, once.
LEMMA WholeIs ==
  ASSUME NEW rows, IsFiniteSet(rows), NEW t \in Whole(rows)
  PROVE  /\ Cardinality(rows) \in Nat /\ t \in [1..Cardinality(rows) -> rows]
         /\ \A row \in rows : \E k \in 1..Cardinality(rows) : t[k] = row
         /\ \A i, j \in 1..Cardinality(rows) : t[i] = t[j] => i = j
<1> DEFINE n == Cardinality(rows)
<1>1. n \in Nat
  BY FS_CardinalityType
<1>2. PICK u \in SetToSeqs(rows) : t = SubSeq(u, 1, IF Len(u) > n THEN n ELSE Len(u))
  BY DEF Whole, ByBytes, Tables
<1>3. u \in [1..n -> rows] /\ \A i, j \in 1..n : i # j => u[i] # u[j]
  BY <1>2 DEF SetToSeqs
<1> HIDE DEF n
<1>4. u \in Seq(rows) /\ Len(u) = n /\ u = [i \in 1..n |-> u[i]]
  BY <1>1, <1>3
<1>5. t = u
  <2>1. t = SubSeq(u, 1, n)
    BY <1>1, <1>2, <1>4
  <2>2. SubSeq(u, 1, n) = u
    BY <1>1, <1>4
  <2> QED BY <2>1, <2>2
<1>6. u \in Injection(1..n, rows)
  BY <1>3 DEF Injection, IsInjective
<1>7. IsFiniteSet(1..n) /\ Cardinality(1..n) = n
  BY <1>1, FS_Interval
<1>8. u \in Surjection(1..n, rows)
  BY <1>6, <1>7, FS_Injection DEF n
<1>9. \A row \in rows : \E k \in 1..n : u[k] = row
  BY <1>8 DEF Surjection
<1> QED BY <1>1, <1>3, <1>5, <1>9 DEF n

\* The application mix adds up to all flows.
LEMMA AppsAddUp ==
  ASSUME NEW r \in Captures, NEW a \in Whole(AppProtoMix(r))
  PROVE  Added(a) = Sum(r.flows, Bytes)
<1> DEFINE F == r.flows
           Q == {AppName(f) : f \in F}
           of(name) == {f \in F : AppName(f) = name}
           row(name) == Total(name, of(name))
           R == {row(name) : name \in Q}
           n == Cardinality(R)
<1>1. IsFiniteSet(F) /\ \A f \in F : Bytes(f) \in Int
  BY BytesIn
<1>2. AppProtoMix(r) = R
  BY DEF AppProtoMix
<1>3. IsFiniteSet(R)
  <2> DEFINE p == [f \in F |-> row(AppName(f))]
  <2>1. R = {p[f] : f \in F}
    OBVIOUS
  <2> HIDE DEF p, R, F
  <2> QED BY <1>1, <2>1, ImageFinite
<1>4. \A name : row(name).name = name /\ row(name).bytes = Sum(of(name), Bytes)
  BY DEF Total
<1> HIDE DEF F, row, n
<1>5. /\ n \in Nat /\ a \in [1..n -> R]
      /\ \A x \in R : \E k \in 1..n : a[k] = x
      /\ \A i, j \in 1..n : a[i] = a[j] => i = j
  <2> HIDE DEF R
  <2> QED BY <1>2, <1>3, WholeIs DEF n
<1>6. \A k \in 1..n : a[k] = row(a[k].name)
  <2> SUFFICES ASSUME NEW k \in 1..n PROVE a[k] = row(a[k].name)
    OBVIOUS
  <2>1. PICK name \in Q : a[k] = row(name)
    BY <1>5
  <2> QED BY <1>4, <2>1
<1> DEFINE g == [f \in F |-> CHOOSE k \in 1..n : a[k].name = AppName(f)]
<1>7. \A f \in F : g[f] \in 1..n /\ a[g[f]].name = AppName(f)
  <2> SUFFICES ASSUME NEW f \in F PROVE g[f] \in 1..n /\ a[g[f]].name = AppName(f)
    OBVIOUS
  <2>1. row(AppName(f)) \in R
    OBVIOUS
  <2>2. \E k \in 1..n : a[k].name = AppName(f)
    BY <1>4, <1>5, <2>1
  <2>3. g[f] = CHOOSE k \in 1..n : a[k].name = AppName(f)
    OBVIOUS
  <2> HIDE DEF g
  <2> QED BY <2>2, <2>3
<1> HIDE DEF g, R
<1>8. ASSUME NEW k \in 1..n PROVE a[k].bytes = Sum({f \in F : g[f] = k}, Bytes)
  <2>1. \A f \in F : g[f] = k <=> AppName(f) = a[k].name
    <3> SUFFICES ASSUME NEW f \in F, AppName(f) = a[k].name PROVE g[f] = k
      BY <1>7
    <3>1. a[g[f]] = a[k]
      BY <1>6, <1>7
    <3> QED BY <1>5, <1>7, <3>1
  <2>2. of(a[k].name) = {f \in F : g[f] = k}
    BY <2>1
  <2>3. a[k].bytes = Sum(of(a[k].name), Bytes)
    BY <1>4, <1>6
  <2> HIDE DEF of
  <2> QED BY <2>2, <2>3
<1>9. DOMAIN a = 1..n /\ \A f \in F : g[f] \in 1..n
  BY <1>5, <1>7
<1>10. Added(a) = Sum(F, Bytes)
  BY <1>1, <1>5, <1>8, <1>9, RowsAddUp
<1> QED BY <1>10 DEF F

\* The length of a bucket is a number above 0, and a bucket has a number.
LEMMA BucketsIn ==
  ASSUME NEW r \in Captures
  PROVE  BucketLength(r) \in Nat \ {0} /\ \A f \in r.flows : Bucket(r, f) \in Int
<1>1. /\ r.meta.first \in Int /\ r.meta.last \in Int
      /\ \A f \in r.flows : f.first \in Int /\ f.last \in Int
  BY CapturesAssumption
<1>2. Buckets \in Nat \ {0} /\ Second \in Nat \ {0}
  BY LimitsAssumption
<1>3. \A x \in Int, y \in Nat \ {0} : x \div y \in Int
  OBVIOUS
<1> DEFINE first == r.meta.first
           last == r.meta.last
           length == (last - first) \div Buckets
<1>4. length \in Int
  BY <1>1, <1>2, <1>3
<1>5. BucketLength(r) = IF length <= 0 THEN Second ELSE length
  BY DEF BucketLength
<1> HIDE DEF length
<1>6. BucketLength(r) \in Nat \ {0}
  BY <1>2, <1>4, <1>5
<1>7. ASSUME NEW f \in r.flows PROVE Bucket(r, f) \in Int
  <2> DEFINE half == (f.last - f.first) \div 2
             b == BucketLength(r)
             from == f.first + half - first
  <2>1. half \in Int
    <3>1. f.last - f.first \in Int /\ 2 \in Nat \ {0}
      BY <1>1
    <3> QED BY <1>3, <3>1
  <2>2. from \in Int
    <3> HIDE DEF half
    <3> QED BY <1>1, <2>1
  <2>3. Bucket(r, f) = from \div b
    BY DEF Bucket
  <2> HIDE DEF from, b
  <2> QED BY <1>3, <1>6, <2>2, <2>3 DEF b
<1> QED BY <1>6, <1>7

\* Later buckets begin later.
LEMMA Later ==
  ASSUME NEW a \in Int, NEW x \in Int, NEW y \in Int, NEW b \in Nat \ {0}, x < y
  PROVE  a + x * b < a + y * b
<1>1. y - x >= 1
  OBVIOUS
<1>2. \A d \in Nat : d >= 1 => d * b >= b
  OBVIOUS
<1>3. (y - x) * b >= b
  BY <1>1, <1>2
<1>4. (y - x) * b = y * b - x * b
  OBVIOUS
<1>5. x * b \in Int /\ y * b \in Int
  OBVIOUS
<1> QED BY <1>3, <1>4, <1>5

\* The timeline adds up to all flows, and its buckets come in order.
LEMMA TimelineIs ==
  ASSUME NEW r \in Captures
  PROVE  LET line == Timeline(r)
         IN  /\ Added(line) = Sum(r.flows, Bytes)
             /\ \A i, j \in DOMAIN line : i < j => line[i].name < line[j].name
<1> DEFINE F == r.flows
           B == {Bucket(r, f) : f \in F}
           n == Cardinality(B)
           used == Ascending(B)
           start(k) == r.meta.first + used[k] * BucketLength(r)
           full == [k \in DOMAIN used |-> Total(start(k), Assigned(r, used[k]))]
           line == Timeline(r)
<1>1. IsFiniteSet(F) /\ (\A f \in F : Bytes(f) \in Int) /\ (r.meta.packets = 0 => F = {}) /\ r.meta.first \in Int
  BY BytesIn, CapturesAssumption
<1>2. BucketLength(r) \in Nat \ {0} /\ \A f \in F : Bucket(r, f) \in Int
  BY BucketsIn
<1>3. CASE r.meta.packets = 0
  <2>1. line = <<>>
    BY <1>3 DEF Timeline
  <2> DEFINE b == [i \in DOMAIN line |-> line[i].bytes]
             v == [f \in F |-> Bytes(f)]
  <2>2. DOMAIN b = {} /\ DOMAIN line = {}
    BY <2>1
  <2>3. Added(line) = SumFunctionOnSet(b, DOMAIN b)
    BY DEF Added, SumFunction
  <2>4. Sum(F, Bytes) = SumFunctionOnSet(v, F) /\ F = {}
    BY <1>1, <1>3 DEF Sum
  <2> HIDE DEF b, v, line
  <2>5. Added(line) = Sum(F, Bytes)
    BY <2>2, <2>3, <2>4, SumEmpty
  <2> QED BY <2>2, <2>5 DEF line, F
<1>4. CASE r.meta.packets # 0
  <2>1. IsFiniteSet(B)
    <3> DEFINE p == [f \in F |-> Bucket(r, f)]
    <3>1. B = {p[f] : f \in F}
      OBVIOUS
    <3> HIDE DEF p, B, F
    <3> QED BY <1>1, <3>1, ImageFinite
  <2>2. B \subseteq Int
    BY <1>2
  <2>3. /\ used \in [1..n -> B] /\ n \in Nat /\ \A x \in B : \E k \in 1..n : used[k] = x
        /\ \A i, j \in 1..n : i < j => used[i] < used[j]
    <3> HIDE DEF B
    <3> QED BY <2>1, <2>2, AscendingIs
  <2>4. line = full
    BY <1>4 DEF Timeline
  <2> HIDE DEF used, n, F
  <2>5. DOMAIN full = 1..n /\ \A k \in 1..n : full[k] = Total(start(k), Assigned(r, used[k]))
    BY <2>3
  <2> HIDE DEF full, start, line
  <2>6. \A k \in 1..n : full[k].name = start(k) /\ full[k].bytes = Sum(Assigned(r, used[k]), Bytes)
    BY <2>5 DEF Total
  <2> DEFINE g == [f \in F |-> CHOOSE k \in 1..n : used[k] = Bucket(r, f)]
  <2>7. \A f \in F : g[f] \in 1..n /\ used[g[f]] = Bucket(r, f)
    <3> SUFFICES ASSUME NEW f \in F PROVE g[f] \in 1..n /\ used[g[f]] = Bucket(r, f)
      OBVIOUS
    <3>1. \E k \in 1..n : used[k] = Bucket(r, f)
      BY <2>3
    <3>2. g[f] = CHOOSE k \in 1..n : used[k] = Bucket(r, f)
      OBVIOUS
    <3> HIDE DEF g
    <3> QED BY <3>1, <3>2
  <2> HIDE DEF g
  <2>8. \A i \in 1..n : used[i] \in Int /\ i \in Int
    BY <2>2, <2>3
  <2>9. \A i, j \in 1..n : used[i] = used[j] => i = j
    <3> SUFFICES ASSUME NEW i \in 1..n, NEW j \in 1..n, used[i] = used[j], i # j PROVE FALSE
      OBVIOUS
    <3>1. i < j \/ j < i
      BY <2>8
    <3>2. ~(used[i] < used[j]) /\ ~(used[j] < used[i])
      BY <2>8
    <3> QED BY <2>3, <3>1, <3>2
  <2>10. ASSUME NEW k \in 1..n PROVE full[k].bytes = Sum({f \in F : g[f] = k}, Bytes)
    <3>1. \A f \in F : g[f] = k <=> Bucket(r, f) = used[k]
      BY <2>7, <2>9
    <3>2. Assigned(r, used[k]) = {f \in F : g[f] = k}
      BY <3>1 DEF Assigned, F
    <3> QED BY <2>6, <3>2
  <2>11. \A f \in F : g[f] \in 1..n
    BY <2>7
  <2>12. Added(full) = Sum(F, Bytes)
    <3>1. IsFiniteSet(F) /\ \A f \in F : Bytes(f) \in Int
      BY <1>1
    <3>2. n \in Nat /\ DOMAIN full = 1..n
      BY <2>3, <2>5
    <3> QED BY <2>10, <2>11, <3>1, <3>2, RowsAddUp
  <2>13. ASSUME NEW i \in 1..n, NEW j \in 1..n, i < j PROVE full[i].name < full[j].name
    <3>1. used[i] < used[j] /\ used[i] \in Int /\ used[j] \in Int
      BY <2>3, <2>8, <2>13
    <3>2. start(i) < start(j)
      BY <1>1, <1>2, <3>1, Later DEF start
    <3> QED BY <2>6, <3>2
  <2> QED BY <2>4, <2>5, <2>12, <2>13 DEF line, F
<1> QED BY <1>3, <1>4

\* The summary is one of the capture, from the time it is computed.
SummaryInv ==
  /\ step \notin {"start", "capture", "failed"} => summary \in Summaries(result, opts.topN)
  /\ Built => summary \in Summaries(result, opts.topN)

\* A run starts without a report.
LEMMA SummaryInitially == Init => SummaryInv
BY DEF Init, SummaryInv, Built

\* The summary is computed once.
LEMMA SummaryKept == ReportInv /\ SummaryInv /\ [Next]_vars => SummaryInv'
<1> SUFFICES ASSUME ReportInv, SummaryInv, [Next]_vars PROVE SummaryInv'
  OBVIOUS
<1>0. Built => step \in {"diagram", "render", "ok", "failed"}
  BY DEF ReportInv
<1>1. CASE Compute
  <2>1. summary' \in Summaries(result, opts.topN) /\ UNCHANGED <<result, opts>>
    BY <1>1 DEF Compute
  <2> QED BY <2>1 DEF SummaryInv
<1>2. CASE CannotRead \/ Prepare \/ LoadIOCs \/ RunPass \/ Sort
  <2>1. /\ UNCHANGED <<summary, result, opts, report>>
        /\ step' \in {"start", "capture", "failed"} \/ step \notin {"start", "capture", "failed"}
    BY <1>2 DEF CannotRead, Prepare, LoadIOCs, RunPass, Sort, Failed
  <2> QED BY <2>1 DEF SummaryInv, Built
<1>3. CASE SetupGeoIP \/ RunWHOIS \/ LookUp \/ BuildReport \/ WriteDiagram
  <2>1. UNCHANGED <<summary, result, opts>> /\ step \notin {"start", "capture", "failed"}
    BY <1>3 DEF SetupGeoIP, RunWHOIS, LookUp, BuildReport, WriteDiagram
  <2> QED BY <2>1 DEF SummaryInv
<1>4. CASE Unknown \/ WriteReport \/ WriteReportFails \/ NextFormat \/ Finish
  <2>1. UNCHANGED <<summary, result, opts>> /\ step \notin {"start", "capture", "failed"}
    BY <1>4 DEF Unknown, WriteReport, WriteReportFails, NextFormat, Finish, Failed, Rendering
  <2> QED BY <2>1 DEF SummaryInv
<1>5. CASE UNCHANGED vars
  BY <1>5 DEF vars, SummaryInv, Built
<1> QED BY <1>1, <1>2, <1>3, <1>4, <1>5 DEF Next

\* The tables of a report add up.
LEMMA TotalsRight == DetectInv /\ ReportInv /\ SummaryInv => TotalsAgree
<1> SUFFICES ASSUME DetectInv, ReportInv, SummaryInv, Built
             PROVE  LET total(rows) == SumFunction([i \in DOMAIN rows |-> rows[i].bytes])
                        line == report.summary.timeline
                    IN  /\ total(report.summary.apps) = Sum(result.flows, Bytes)
                        /\ total(line) = Sum(result.flows, Bytes)
                        /\ \A i, j \in DOMAIN line : i < j => line[i].name < line[j].name
  BY DEF TotalsAgree
<1>1. result \in Captures /\ summary \in Summaries(result, opts.topN)
  BY DEF DetectInv, SummaryInv
<1>2. summary.apps \in Whole(AppProtoMix(result)) /\ summary.timeline = Timeline(result)
  BY <1>1 DEF Summaries
<1>3. report.summary = summary
  <2>1. PICK b \in Build(result, summary, findings, geo, whois), d \in BOOLEAN : report = Redrawn(b, d)
    BY DEF ReportInv
  <2>2. PICK h, t, f : b = [hosts |-> h, talkers |-> t, flows |-> f, findings |-> findings,
                            risk |-> RiskAssessment(findings), summary |-> summary, diagram |-> FALSE]
    BY <2>1, BuildMakes
  <2> QED BY <2>1, <2>2 DEF Redrawn
<1>4. Added(summary.apps) = Sum(result.flows, Bytes)
  BY <1>1, <1>2, AppsAddUp
<1> DEFINE line == summary.timeline
<1>5. /\ Added(line) = Sum(result.flows, Bytes)
      /\ \A i, j \in DOMAIN line : i < j => line[i].name < line[j].name
  BY <1>1, <1>2, TimelineIs
<1> QED BY <1>3, <1>4, <1>5 DEF Added

\* Whatever flows there are and whenever they were: each one's bytes are in
\* one row of the application mix and in one bucket of the timeline, and the
\* buckets come in order.
THEOREM AddsUp == Spec => []TotalsAgree
<1>1. Init => DetectInv /\ ReportInv /\ SummaryInv
  BY DetectInitially, SummaryInitially DEF Init, ReportInv, Built
<1>2. DetectInv /\ ReportInv /\ SummaryInv /\ [Next]_vars => DetectInv' /\ ReportInv' /\ SummaryInv'
  BY DetectKept, ReportKept, SummaryKept
<1>3. DetectInv /\ ReportInv /\ SummaryInv => TotalsAgree
  BY TotalsRight
<1> QED BY <1>1, <1>2, <1>3, PTL DEF Spec
=============================================================================
