-------------------------- MODULE LocalFileProofs --------------------------
(***************************************************************************)
(* Theorems about transfers to and from local files (module LocalFile), for *)
(* every number of calls, files and descriptors and every size.            *)
(***************************************************************************)
EXTENDS LocalFile, SequenceTheorems, TLAPS

-----------------------------------------------------------------------------
(* What holds however descriptors are handed out *)

Busy(c) == phase[c] \notin {"new", "done"}

Phases == {"new", "running", "stat", "unlink", "close", "done"}
Outcomes == {"none", "resolved", "rejected"}

Typed ==
    /\ files \in [Files -> {None} \cup Contents]
    /\ descriptors \in [Descriptors -> Files \cup {None, Gone}]
    /\ phase \in [Calls -> Phases]
    /\ outcome \in [Calls -> Outcomes]
    /\ param \in [Calls -> Params \cup {None}]
    /\ fd \in [Calls -> Descriptors \cup {None}]
    /\ pos \in [Calls -> 0 .. Size]
    /\ buffer \in [Calls -> Seq(Bytes)]
    /\ passed \in [Calls -> Seq(Bytes)]
    /\ ended \in [Calls -> BOOLEAN]
    /\ original \in [Calls -> {None} \cup Contents]

OneAtATime == \A c, e \in Calls : Busy(c) /\ Busy(e) => c = e

\* A call that has opened nothing has received nothing.
Untouched == \A c \in Calls : /\ phase[c] = "new" => fd[c] = None
                              /\ fd[c] = None => buffer[c] = <<>> /\ passed[c] = <<>>
                              /\ fd[c] # None => param[c] \in Params

\* The descriptor of a running call refers to its file, until a failed
\* download from the start has removed it.
HoldsItsFile ==
    \A c \in Calls : Busy(c) =>
        /\ fd[c] # None
        /\ \/ descriptors[fd[c]] = param[c].file
           \/ /\ descriptors[fd[c]] = Gone
              /\ phase[c] = "close" /\ outcome[c] = "rejected" /\ param[c].from = 0
              /\ param[c].kind = "download"

OpenIsBusy ==
    \A d \in Descriptors : descriptors[d] # None => \E c \in Calls : fd[c] = d /\ Busy(c)

OpenExists == \A d \in Descriptors : descriptors[d] \in Files => files[descriptors[d]] # None

\* What a stream has still to write lies before the end of what was received.
WithinReceived ==
    \A c \in Calls : fd[c] # None /\ param[c].kind = "download" =>
        /\ param[c].from <= pos[c]
        /\ pos[c] + Len(buffer[c]) <= param[c].from + Len(passed[c])
        /\ param[c].from + Len(passed[c]) <= Size

OnlyDownloadsBuffer == \A c \in Calls : buffer[c] # <<>> => param[c].kind = "download"

\* Only a failed download from the start is examined and removed.
CleansUpFailures ==
    \A c \in Calls :
        /\ phase[c] \in {"stat", "unlink"} => outcome[c] = "rejected" /\ param[c].kind = "download"
        /\ phase[c] = "unlink" => param[c].from = 0
        /\ phase[c] \in {"new", "running"} => outcome[c] = "none"

Handling ==
    /\ Typed /\ OneAtATime /\ Untouched /\ HoldsItsFile /\ OpenIsBusy /\ OpenExists
    /\ WithinReceived /\ OnlyDownloadsBuffer /\ CleansUpFailures /\ NoEmptyRemains

-----------------------------------------------------------------------------
(* What holds when no descriptor is handed out that a stream still writes to *)

\* The stream of a call that is over writes nowhere.
OverIsClosed ==
    \A c \in Calls : buffer[c] # <<>> /\ ~Busy(c) => descriptors[fd[c]] = None

\* What a download has written is what it received, and the rest of its file
\* is as it was.
DownloadsInto(c, content) ==
    /\ phase[c] = "running" => pos[c] + Len(buffer[c]) = param[c].from + Len(passed[c])
    /\ outcome[c] = "resolved" => pos[c] = param[c].from + Len(passed[c])
    /\ \A i \in 1 .. Len(buffer[c]) : buffer[c][i] = passed[c][pos[c] - param[c].from + i]
    /\ descriptors[fd[c]] = param[c].file =>
          /\ pos[c] > param[c].from => pos[c] <= Len(content)
          /\ \A i \in 1 .. pos[c] - param[c].from : content[param[c].from + i] = passed[c][i]
    /\ param[c].from > 0 =>
          /\ original[c] # None
          /\ \A i \in 1 .. Len(original[c]) :
                i \notin param[c].from + 1 .. pos[c] =>
                    i <= Len(content) /\ content[i] = original[c][i]

Downloaded ==
    \A c \in Calls : Busy(c) /\ param[c].kind = "download" =>
        DownloadsInto(c, files[param[c].file])

\* An upload has sent its file from where it started, and no more than asked.
UploadsFrom(c, content) ==
    /\ content = original[c] /\ content # None
    /\ pos[c] = param[c].from + Len(passed[c])
    /\ pos[c] > param[c].from =>
          pos[c] <= Len(content) /\ (param[c].to >= 0 => pos[c] <= param[c].to + 1)
    /\ \A i \in 1 .. Len(passed[c]) : passed[c][i] = content[param[c].from + i]
    /\ outcome[c] = "resolved" => pos[c] >= Len(content) \/ EndsAt(c)

Uploaded ==
    \A c \in Calls : Busy(c) /\ param[c].kind = "upload" =>
        UploadsFrom(c, files[param[c].file])

Keeping == Handling /\ OverIsClosed /\ Downloaded /\ Uploaded

-----------------------------------------------------------------------------
(* Contents *)

LEMMA ContentIsSeq ==
    ASSUME NEW s \in Contents
    PROVE  s \in Seq(Bytes) /\ Len(s) \in 0 .. Size /\ \A i \in 1 .. Len(s) : s[i] \in Bytes
  <1>1. PICK n \in 0 .. Size : s \in [1 .. n -> Bytes]
    BY DEF Contents
  <1>2. n \in Nat
    BY SizeAssumption
  <1>3. s \in Seq(Bytes) /\ Len(s) = n
    BY <1>1, <1>2
  <1> QED
    BY <1>1, <1>3

LEMMA SeqIsContent ==
    ASSUME NEW s \in Seq(Bytes), Len(s) <= Size
    PROVE  s \in Contents
  <1>1. Len(s) \in 0 .. Size /\ s \in [1 .. Len(s) -> Bytes]
    BY LenProperties, SizeAssumption
  <1> QED
    BY <1>1 DEF Contents

LEMMA EmptyContent == <<>> \in Contents /\ <<>> \in Seq(Bytes) /\ Len(<<>>) = 0
  <1>1. <<>> \in Seq(Bytes) /\ Len(<<>>) = 0
    BY EmptySeq
  <1>2. Len(<<>>) <= Size
    BY <1>1, SizeAssumption
  <1> QED
    BY <1>1, <1>2, SeqIsContent

LEMMA WrittenFacts ==
    ASSUME NEW content \in Contents, NEW at \in 0 .. Size, at < Size, NEW byte \in Bytes,
           NEW new, new = Written(content, at, byte)
    PROVE  /\ new \in Contents /\ new # <<>>
           /\ Len(new) \in Nat /\ Len(new) >= Len(content) /\ Len(new) >= at + 1
           /\ new[at + 1] = byte
           /\ \A i \in 1 .. Len(content) : i # at + 1 => new[i] = content[i]
  <1>1. PICK n : n = IF at + 1 > Len(content) THEN at + 1 ELSE Len(content)
    OBVIOUS
  <1>2. Len(content) \in 0 .. Size /\ \A i \in 1 .. Len(content) : content[i] \in Bytes
    BY ContentIsSeq
  <1>3. n \in 0 .. Size /\ n \in Nat /\ n >= at + 1 /\ n >= Len(content)
    BY <1>1, <1>2, SizeAssumption
  <1>4. new = [i \in 1 .. n |-> IF i = at + 1 THEN byte
                               ELSE IF i <= Len(content) THEN content[i] ELSE Hole]
    BY <1>1 DEF Written
  <1>5. \A i \in 1 .. n : new[i] = IF i = at + 1 THEN byte
                                  ELSE IF i <= Len(content) THEN content[i] ELSE Hole
    BY <1>4
  <1>6. \A i \in 1 .. n : new[i] \in Bytes
    BY <1>2, <1>5 DEF Bytes, Hole
  <1>7. new \in [1 .. n -> Bytes]
    BY <1>4, <1>6
  <1>8. new \in Contents /\ new \in Seq(Bytes) /\ Len(new) = n
    BY <1>3, <1>7 DEF Contents
  <1>9. new # <<>>
    BY <1>3, <1>8
  <1>10. \A i \in 1 .. Len(content) : i # at + 1 => new[i] = content[i]
    BY <1>2, <1>3, <1>5
  <1>11. new[at + 1] = byte
    BY <1>3, <1>5
  <1> QED
    BY <1>2, <1>3, <1>8, <1>9, <1>10, <1>11

LEMMA ParamFacts ==
    ASSUME NEW p \in Params
    PROVE  /\ p.kind \in {"download", "upload"} /\ p.file \in Files
           /\ p.from \in 0 .. Size /\ p.to \in Int /\ p.to >= -1 /\ p.from \in Nat
  <1>1. p \in [kind : {"download", "upload"}, file : Files, from : 0 .. Size, to : -1 .. Size]
    BY ParamsAssumption
  <1> QED
    BY <1>1, SizeAssumption

-----------------------------------------------------------------------------
(* Each step keeps Handling *)

LEMMA OpensKeeps ==
    ASSUME Handling, NEW c \in Calls, NEW p \in Params, Opens(c, p)
    PROVE  Handling'
  <1> USE NoneAssumption, GoneAssumption
  <1>1. PICK d \in Descriptors :
           /\ descriptors[d] = None
           /\ fd' = [fd EXCEPT ![c] = d]
           /\ descriptors' = [descriptors EXCEPT ![d] = p.file]
    BY DEF Opens, Available
  <1>2. /\ Idle /\ phase[c] = "new"
        /\ param' = [param EXCEPT ![c] = p] /\ original' = [original EXCEPT ![c] = files[p.file]]
        /\ files' = IF Truncates(p) THEN [files EXCEPT ![p.file] = <<>>] ELSE files
        /\ Truncates(p) \/ files[p.file] # None
        /\ pos' = [pos EXCEPT ![c] = p.from] /\ phase' = [phase EXCEPT ![c] = "running"]
        /\ UNCHANGED <<outcome, buffer, passed, ended>>
    BY DEF Opens, Start, StartsAt
  <1>3. /\ p.kind \in {"download", "upload"} /\ p.file \in Files /\ p.from \in 0 .. Size /\ p.from \in Nat
    BY ParamFacts
  <1>4. Typed
    BY DEF Handling
  <1>5. /\ fd'[c] = d /\ param'[c] = p /\ pos'[c] = p.from /\ phase'[c] = "running"
        /\ \A e \in Calls : e # c => /\ fd'[e] = fd[e] /\ param'[e] = param[e]
                                    /\ pos'[e] = pos[e] /\ phase'[e] = phase[e]
    BY <1>1, <1>2, <1>4 DEF Typed
  <1>6. /\ descriptors'[d] = p.file
        /\ \A b \in Descriptors : b # d => descriptors'[b] = descriptors[b]
    BY <1>1, <1>4 DEF Typed
  <1>7. /\ files'[p.file] # None
        /\ \A f \in Files : f # p.file => files'[f] = files[f]
        /\ \A f \in Files : files[f] # None => files'[f] # None
    BY <1>2, <1>3, <1>4, EmptyContent DEF Typed
  <1>8. \A e \in Calls : ~Busy(e)
    BY <1>2 DEF Idle, Busy
  <1>9. \A e \in Calls : e # c => ~Busy(e)'
    BY <1>5, <1>8 DEF Busy
  <1>10. buffer[c] = <<>> /\ passed[c] = <<>> /\ fd[c] = None /\ outcome' = outcome
    BY <1>2 DEF Handling, Untouched
  <1>11. Typed'
    <2>1. files' \in [Files -> {None} \cup Contents] /\ files[p.file] \in {None} \cup Contents
      BY <1>2, <1>3, <1>4, EmptyContent DEF Typed
    <2>2. /\ descriptors' \in [Descriptors -> Files \cup {None, Gone}]
          /\ phase' \in [Calls -> Phases] /\ param' \in [Calls -> Params \cup {None}]
          /\ fd' \in [Calls -> Descriptors \cup {None}]
      BY <1>1, <1>2, <1>3, <1>4 DEF Typed, Phases
    <2>3. pos' \in [Calls -> 0 .. Size] /\ original' \in [Calls -> {None} \cup Contents]
      BY <1>2, <1>3, <1>4, <2>1 DEF Typed
    <2> QED
      BY <1>2, <1>4, <2>1, <2>2, <2>3 DEF Typed
  <1>12. OneAtATime'
    BY <1>9 DEF OneAtATime
  <1>13. Untouched'
    BY <1>2, <1>5 DEF Untouched, Handling
  <1>14. HoldsItsFile'
    BY <1>5, <1>6, <1>9 DEF HoldsItsFile
  <1>15. OpenIsBusy'
    <2> SUFFICES ASSUME NEW b \in Descriptors, descriptors'[b] # None
                 PROVE  \E e \in Calls : fd'[e] = b /\ Busy(e)'
      BY DEF OpenIsBusy
    <2>1. b = d
      BY <1>6, <1>8 DEF Handling, OpenIsBusy
    <2>2. Busy(c)'
      BY <1>5 DEF Busy
    <2> QED
      BY <1>5, <2>1, <2>2
  <1>16. OpenExists'
    BY <1>4, <1>6, <1>7 DEF OpenExists, Handling, Typed
  <1>17. WithinReceived'
    <2> SUFFICES ASSUME NEW e \in Calls, fd'[e] # None, param'[e].kind = "download"
                 PROVE  /\ param'[e].from <= pos'[e]
                        /\ pos'[e] + Len(buffer[e]) <= param'[e].from + Len(passed[e])
                        /\ param'[e].from + Len(passed[e]) <= Size
      BY <1>2 DEF WithinReceived
    <2>1. CASE e = c
      BY <1>3, <1>5, <1>10, <2>1, EmptyContent
    <2>2. CASE e # c
      BY <1>5, <2>2 DEF Handling, WithinReceived
    <2> QED
      BY <2>1, <2>2
  <1>18. OnlyDownloadsBuffer'
    BY <1>2, <1>5, <1>10 DEF OnlyDownloadsBuffer, Handling
  <1>19. CleansUpFailures' /\ NoEmptyRemains'
    <2>1. \A e \in Calls : phase'[e] \notin {"stat", "unlink", "close"}
      BY <1>5, <1>9 DEF Busy
    <2>2. \A e \in Calls : phase'[e] = "running" => e = c
      BY <1>9 DEF Busy
    <2>3. \A e \in Calls : phase'[e] \in {"new", "running"} => phase[e] = "new"
      BY <1>2, <1>5, <2>2
    <2>4. CleansUpFailures'
      BY <1>10, <2>1, <2>3 DEF CleansUpFailures, Handling
    <2> QED
      BY <2>1, <2>4 DEF NoEmptyRemains
  <1> QED
    BY <1>11, <1>12, <1>13, <1>14, <1>15, <1>16, <1>17, <1>18, <1>19 DEF Handling

LEMMA OpenFailsKeeps ==
    ASSUME Handling, NEW c \in Calls, NEW p \in Params, OpenFails(c, p)
    PROVE  Handling'
  <1>1. /\ phase[c] = "new" /\ UNCHANGED <<files, descriptors, fd, pos, buffer, passed, ended>>
        /\ param' = [param EXCEPT ![c] = p] /\ original' = [original EXCEPT ![c] = files[p.file]]
        /\ phase' = [phase EXCEPT ![c] = "done"] /\ outcome' = [outcome EXCEPT ![c] = "rejected"]
    BY DEF OpenFails, Start, disk, stream
  <1>2. Typed
    BY DEF Handling
  <1>3. Typed'
    <2>1. p.file \in Files
      BY ParamFacts
    <2> QED
      BY <1>1, <1>2, <2>1 DEF Typed, Phases, Outcomes
  <1>4. /\ phase'[c] = "done" /\ outcome'[c] = "rejected" /\ param'[c] = p
        /\ fd[c] = None /\ buffer[c] = <<>>
        /\ \A e \in Calls : e # c => /\ phase'[e] = phase[e] /\ outcome'[e] = outcome[e]
                                    /\ param'[e] = param[e]
    BY <1>1, <1>2 DEF Typed, Handling, Untouched
  <1>5. \A e \in Calls : Busy(e)' => e # c
    BY <1>4 DEF Busy
  <1>6. \A e \in Calls : Busy(e)' <=> Busy(e)
    BY <1>1, <1>4 DEF Busy
  <1>7. OneAtATime' /\ Untouched' /\ OpenExists' /\ OpenIsBusy'
    <2>1. Untouched'
      BY <1>1, <1>4 DEF Handling, Untouched
    <2> QED
      BY <1>1, <1>6, <2>1 DEF Handling, OneAtATime, OpenExists, OpenIsBusy
  <1>8. HoldsItsFile'
    BY <1>1, <1>4, <1>5, <1>6 DEF Handling, HoldsItsFile
  <1>9. WithinReceived' /\ OnlyDownloadsBuffer'
    BY <1>1, <1>4 DEF Handling, WithinReceived, OnlyDownloadsBuffer
  <1>10. CleansUpFailures' /\ NoEmptyRemains'
    BY <1>1, <1>4 DEF Handling, CleansUpFailures, NoEmptyRemains
  <1> QED
    BY <1>3, <1>7, <1>8, <1>9, <1>10 DEF Handling

LEMMA RunningContent ==
    ASSUME Handling, NEW c \in Calls, phase[c] = "running"
    PROVE  /\ descriptors[fd[c]] = param[c].file /\ Content(fd[c]) = files[param[c].file]
           /\ Content(fd[c]) \in Contents
  <1>1. descriptors[fd[c]] = param[c].file /\ fd[c] # None
    BY DEF Handling, HoldsItsFile, Busy
  <1>2. param[c] \in Params /\ fd[c] \in Descriptors
    BY <1>1 DEF Handling, Untouched, Typed
  <1>3. files[descriptors[fd[c]]] # None /\ descriptors[fd[c]] \in Files
    BY <1>1, <1>2, ParamFacts DEF Handling, OpenExists
  <1> QED
    BY <1>1, <1>3 DEF Content, Handling, Typed

\* Bytes that pass, without touching the disk.
LEMMA PassingKeeps ==
    ASSUME Handling, NEW c \in Calls, Receives(c) \/ DataEnds(c) \/ Sends(c)
    PROVE  Handling'
  <1> USE NoneAssumption
  <1>1. /\ UNCHANGED <<files, descriptors, phase, outcome, param, original, fd>>
        /\ phase[c] = "running" /\ fd[c] # None
    BY DEF Receives, DataEnds, Sends, Is, disk
  <1>2. Typed
    BY DEF Handling
  <1>3. param[c] \in Params /\ fd[c] \in Descriptors
    BY <1>1, <1>2 DEF Handling, Untouched, Typed
  <1>p. /\ param[c].from \in 0 .. Size /\ param[c].kind \in {"download", "upload"}
    BY <1>3, ParamFacts
  <1>4. pos[c] \in 0 .. Size /\ buffer[c] \in Seq(Bytes) /\ passed[c] \in Seq(Bytes)
    BY <1>2 DEF Typed
  <1>5. /\ OneAtATime' /\ HoldsItsFile' /\ OpenIsBusy' /\ OpenExists'
        /\ CleansUpFailures' /\ NoEmptyRemains'
    BY <1>1 DEF Handling, OneAtATime, HoldsItsFile, OpenIsBusy, OpenExists, CleansUpFailures,
                NoEmptyRemains, Busy
  <1>6. CASE Receives(c)
    <2>1. PICK byte : /\ byte = <<c, param[c].from + Len(passed[c])>>
                      /\ buffer' = [buffer EXCEPT ![c] = Append(@, byte)]
                      /\ passed' = [passed EXCEPT ![c] = Append(@, byte)]
      BY <1>6 DEF Receives
    <2>2. /\ param[c].kind = "download" /\ param[c].from + Len(passed[c]) < Size
          /\ UNCHANGED <<pos, ended>>
      BY <1>6 DEF Receives, Is
    <2>3. byte \in Bytes
      BY <1>p, <1>4, <2>1, <2>2, SizeAssumption DEF Bytes
    <2>4. /\ Append(buffer[c], byte) \in Seq(Bytes) /\ Append(passed[c], byte) \in Seq(Bytes)
          /\ Len(Append(buffer[c], byte)) = Len(buffer[c]) + 1
          /\ Len(Append(passed[c], byte)) = Len(passed[c]) + 1
      BY <1>4, <2>3, AppendProperties
    <2>5. /\ buffer'[c] = Append(buffer[c], byte) /\ passed'[c] = Append(passed[c], byte)
          /\ \A e \in Calls : e # c => buffer'[e] = buffer[e] /\ passed'[e] = passed[e]
      BY <1>2, <2>1 DEF Typed
    <2>6. Typed'
      BY <1>1, <1>2, <2>1, <2>2, <2>4 DEF Typed
    <2>7. Untouched' /\ OnlyDownloadsBuffer'
      BY <1>1, <2>2, <2>5 DEF Handling, Untouched, OnlyDownloadsBuffer
    <2>8. WithinReceived'
      <3> SUFFICES ASSUME NEW e \in Calls, fd[e] # None, param[e].kind = "download"
                   PROVE  /\ param[e].from <= pos[e]
                          /\ pos[e] + Len(buffer'[e]) <= param[e].from + Len(passed'[e])
                          /\ param[e].from + Len(passed'[e]) <= Size
        BY <1>1, <2>2 DEF WithinReceived
      <3>1. /\ param[e].from <= pos[e]
            /\ pos[e] + Len(buffer[e]) <= param[e].from + Len(passed[e])
            /\ param[e].from + Len(passed[e]) <= Size
        BY DEF Handling, WithinReceived
      <3>2. CASE e # c
        BY <2>5, <3>1, <3>2
      <3>3. CASE e = c
        <4>1. Len(buffer[c]) \in Nat /\ Len(passed[c]) \in Nat /\ param[c].from \in Nat /\ pos[c] \in Nat
          BY <1>p, <1>4, SizeAssumption
        <4>2. Len(buffer'[c]) = Len(buffer[c]) + 1 /\ Len(passed'[c]) = Len(passed[c]) + 1
          BY <2>4, <2>5
        <4>3. param[c].from + Len(passed[c]) < Size /\ Size \in Nat
          BY <2>2, SizeAssumption
        <4>4. /\ param[c].from <= pos[c]
              /\ pos[c] + Len(buffer[c]) <= param[c].from + Len(passed[c])
          BY <3>1, <3>3
        <4>5. /\ pos[c] + Len(buffer'[c]) <= param[c].from + Len(passed'[c])
              /\ param[c].from + Len(passed'[c]) <= Size
          <5>1. PICK b, q, from, at, b1, q1 :
                   /\ b = Len(buffer[c]) /\ q = Len(passed[c]) /\ from = param[c].from /\ at = pos[c]
                   /\ b1 = Len(buffer'[c]) /\ q1 = Len(passed'[c])
            OBVIOUS
          <5>2. /\ b \in Nat /\ q \in Nat /\ from \in Nat /\ at \in Nat /\ b1 = b + 1 /\ q1 = q + 1
                /\ from + q < Size /\ Size \in Nat /\ at + b <= from + q
            BY <4>1, <4>2, <4>3, <4>4, <5>1
          <5>3. at + b1 <= from + q1 /\ from + q1 <= Size
            BY <5>2
          <5> QED
            BY <5>1, <5>3
        <4> QED
          BY <3>3, <4>4, <4>5
      <3> QED
        BY <3>2, <3>3
    <2> QED
      BY <1>5, <2>6, <2>7, <2>8 DEF Handling
  <1>7. CASE DataEnds(c)
    <2>1. UNCHANGED <<pos, buffer, passed>> /\ ended' = [ended EXCEPT ![c] = TRUE]
      BY <1>7 DEF DataEnds
    <2>2. Typed'
      BY <1>1, <1>2, <2>1 DEF Typed
    <2>3. Untouched' /\ OnlyDownloadsBuffer' /\ WithinReceived'
      BY <1>1, <2>1 DEF Handling, Untouched, OnlyDownloadsBuffer, WithinReceived
    <2> QED
      BY <1>5, <2>2, <2>3 DEF Handling
  <1>8. CASE Sends(c)
    <2>1. PICK byte : /\ byte = Content(fd[c])[pos[c] + 1]
                      /\ passed' = [passed EXCEPT ![c] = Append(@, byte)]
      BY <1>8 DEF Sends
    <2>2. /\ param[c].kind = "upload" /\ pos[c] < Len(Content(fd[c]))
          /\ pos' = [pos EXCEPT ![c] = @ + 1] /\ UNCHANGED <<buffer, ended>>
      <3>1. Len(Content(fd[c])) \in 0 .. Size
        BY <1>1, RunningContent, ContentIsSeq
      <3> QED
        BY <1>4, <1>8, <3>1, SizeAssumption DEF Sends, Is, Exhausted
    <2>3. Content(fd[c]) \in Contents
      BY <1>1, RunningContent
    <2>4. byte \in Bytes /\ pos[c] + 1 \in 0 .. Size
      <3>1. /\ Len(Content(fd[c])) \in 0 .. Size
            /\ \A i \in 1 .. Len(Content(fd[c])) : Content(fd[c])[i] \in Bytes
        BY <2>3, ContentIsSeq
      <3>2. pos[c] + 1 \in 1 .. Len(Content(fd[c])) /\ pos[c] + 1 \in 0 .. Size
        BY <1>4, <2>2, <3>1, SizeAssumption
      <3> QED
        BY <2>1, <3>1, <3>2
    <2>5. Append(passed[c], byte) \in Seq(Bytes)
      BY <1>4, <2>4, AppendProperties
    <2>6. Typed'
      BY <1>1, <1>2, <2>1, <2>2, <2>4, <2>5 DEF Typed
    <2>7. \A e \in Calls : e # c => passed'[e] = passed[e] /\ pos'[e] = pos[e]
      BY <1>2, <2>1, <2>2 DEF Typed
    <2>8. Untouched' /\ OnlyDownloadsBuffer'
      BY <1>1, <2>2, <2>7 DEF Handling, Untouched, OnlyDownloadsBuffer
    <2>9. WithinReceived'
      BY <1>1, <2>2, <2>7 DEF Handling, WithinReceived
    <2> QED
      BY <1>5, <2>6, <2>8, <2>9 DEF Handling
  <1> QED
    BY <1>6, <1>7, <1>8

LEMMA FlushesKeeps ==
    ASSUME Handling, NEW c \in Calls, Flushes(c)
    PROVE  Handling'
  <1> USE NoneAssumption, GoneAssumption
  <1>1. /\ buffer[c] # <<>> /\ pos' = [pos EXCEPT ![c] = @ + 1]
        /\ UNCHANGED <<descriptors, phase, outcome, param, original, fd, passed, ended>>
    BY DEF Flushes
  <1>2. PICK target, head, rest :
           /\ target = descriptors[fd[c]] /\ head = Head(buffer[c])
           /\ rest = IF target = None THEN <<>> ELSE Tail(buffer[c])
           /\ buffer' = [buffer EXCEPT ![c] = rest]
           /\ files' = IF target \in {None, Gone} THEN files
                       ELSE [files EXCEPT ![target] = Written(files[target], pos[c], head)]
    BY DEF Flushes
  <1>3. Typed
    BY DEF Handling
  <1>4. /\ fd[c] # None /\ fd[c] \in Descriptors /\ param[c] \in Params
        /\ param[c].kind = "download"
    BY <1>1, <1>3 DEF Handling, Untouched, OnlyDownloadsBuffer, Typed
  <1>5. /\ param[c].from \in Nat /\ pos[c] \in 0 .. Size /\ pos[c] \in Nat
        /\ buffer[c] \in Seq(Bytes) /\ passed[c] \in Seq(Bytes) /\ Len(passed[c]) \in Nat
    BY <1>3, <1>4, ParamFacts, SizeAssumption DEF Typed
  <1>6. /\ head \in Bytes /\ rest \in Seq(Bytes) /\ Len(buffer[c]) \in Nat /\ Len(buffer[c]) >= 1
        /\ Len(rest) \in Nat /\ Len(rest) <= Len(buffer[c]) - 1
    <2>1. /\ Head(buffer[c]) \in Bytes /\ Tail(buffer[c]) \in Seq(Bytes)
          /\ Len(Tail(buffer[c])) = Len(buffer[c]) - 1
      BY <1>1, <1>5, HeadTailProperties
    <2>2. Len(buffer[c]) \in Nat /\ Len(buffer[c]) >= 1
      BY <1>1, <1>5, EmptySeq
    <2> QED
      BY <1>2, <2>1, <2>2, EmptyContent
  <1>7. pos[c] < Size /\ pos[c] + 1 \in 0 .. Size
    <2>1. /\ pos[c] + Len(buffer[c]) <= param[c].from + Len(passed[c])
          /\ param[c].from + Len(passed[c]) <= Size
      BY <1>4 DEF Handling, WithinReceived
    <2>2. PICK p \in Nat, k \in Nat, m \in Nat : p = pos[c] /\ k = Len(buffer[c]) /\ m = param[c].from + Len(passed[c])
      BY <1>5, <1>6
    <2>3. p + k <= m /\ m <= Size /\ k >= 1 /\ p \in Nat
      BY <1>5, <1>6, <2>1, <2>2
    <2>4. p < Size /\ p + 1 \in 0 .. Size
      BY <2>2, <2>3, SizeAssumption
    <2> QED
      BY <2>2, <2>4
  <1>8. /\ buffer'[c] = rest /\ pos'[c] = pos[c] + 1
        /\ \A e \in Calls : e # c => buffer'[e] = buffer[e] /\ pos'[e] = pos[e]
    BY <1>1, <1>2, <1>3 DEF Typed
  <1>9. /\ files' \in [Files -> {None} \cup Contents]
        /\ \A f \in Files : files[f] # None => files'[f] # None
        /\ \A f \in Files : files[f] # <<>> => files'[f] # <<>>
    <2>1. CASE target \in {None, Gone}
      BY <1>2, <1>3, <2>1 DEF Typed
    <2>2. CASE target \notin {None, Gone}
      <3>1. target \in Files /\ files[target] # None
        BY <1>2, <1>3, <1>4, <2>2 DEF Handling, OpenExists, Typed
      <3>2. files[target] \in Contents
        BY <1>3, <3>1 DEF Typed
      <3>3. PICK new : new = Written(files[target], pos[c], head)
        OBVIOUS
      <3>4. new \in Contents /\ new # <<>>
        BY <1>5, <1>6, <1>7, <3>2, <3>3, WrittenFacts
      <3>5. files' = [files EXCEPT ![target] = new]
        BY <1>2, <2>2, <3>3
      <3> QED
        BY <1>3, <3>1, <3>4, <3>5 DEF Typed
    <2> QED
      BY <2>1, <2>2
  <1>10. Typed'
    BY <1>1, <1>2, <1>3, <1>6, <1>7, <1>9 DEF Typed
  <1>11. /\ OneAtATime' /\ HoldsItsFile' /\ OpenIsBusy' /\ CleansUpFailures'
    BY <1>1 DEF Handling, OneAtATime, HoldsItsFile, OpenIsBusy, CleansUpFailures, Busy
  <1>12. Untouched' /\ OnlyDownloadsBuffer'
    BY <1>1, <1>4, <1>8 DEF Handling, Untouched, OnlyDownloadsBuffer
  <1>13. OpenExists'
    BY <1>1, <1>9 DEF Handling, OpenExists
  <1>14. WithinReceived'
    <2> SUFFICES ASSUME NEW e \in Calls, fd[e] # None, param[e].kind = "download"
                 PROVE  /\ param[e].from <= pos'[e]
                        /\ pos'[e] + Len(buffer'[e]) <= param[e].from + Len(passed[e])
                        /\ param[e].from + Len(passed[e]) <= Size
      BY <1>1 DEF WithinReceived
    <2>1. /\ param[e].from <= pos[e]
          /\ pos[e] + Len(buffer[e]) <= param[e].from + Len(passed[e])
          /\ param[e].from + Len(passed[e]) <= Size
      BY DEF Handling, WithinReceived
    <2>2. CASE e # c
      BY <1>8, <2>1, <2>2
    <2>3. CASE e = c
      BY <1>5, <1>6, <1>8, <2>1, <2>3
    <2> QED
      BY <2>2, <2>3
  <1>15. NoEmptyRemains'
    <2> SUFFICES ASSUME NEW e \in Calls, phase[e] = "close", outcome[e] = "rejected",
                        param[e].kind = "download", ~(param[e].from > 0)
                 PROVE  files'[param[e].file] # <<>>
      BY <1>1 DEF NoEmptyRemains
    <2>1. files[param[e].file] # <<>>
      BY DEF Handling, NoEmptyRemains
    <2>2. param[e] \in Params
      BY DEF Handling, Untouched, HoldsItsFile, Busy
    <2> QED
      BY <1>9, <2>1, <2>2, ParamFacts
  <1> QED
    BY <1>10, <1>11, <1>12, <1>13, <1>14, <1>15 DEF Handling

LEMMA SettlingKeepsHandling ==
    ASSUME Handling, NEW c \in Calls, Resolves(c) \/ Rejects(c)
    PROVE  Handling'
  <1> USE NoneAssumption, GoneAssumption
  <1>t. Typed
    BY DEF Handling
  <1>1. /\ phase[c] = "running"
        /\ UNCHANGED <<files, descriptors, param, original, fd, pos, passed, ended>>
    BY DEF Resolves, Rejects, Settle, disk
  <1>2. /\ fd[c] # None /\ param[c] \in Params /\ buffer[c] \in Seq(Bytes)
    BY <1>1, <1>t DEF Handling, HoldsItsFile, Untouched, Busy, Typed
  <1>3. PICK how, then, kept :
           /\ outcome' = [outcome EXCEPT ![c] = how] /\ phase' = [phase EXCEPT ![c] = then]
           /\ buffer' = [buffer EXCEPT ![c] = kept]
           /\ \/ how = "resolved" /\ then = "close" /\ kept = buffer[c]
              \/ /\ how = "rejected"
                 /\ then = IF param[c].kind = "download" THEN "stat" ELSE "close"
                 /\ \E n \in 0 .. Len(buffer[c]) : kept = SubSeq(buffer[c], 1, n)
    <2>1. CASE Resolves(c)
      <3>1. buffer' = [buffer EXCEPT ![c] = buffer[c]]
        BY <2>1, <1>t DEF Resolves, Typed
      <3> QED
        BY <2>1, <3>1 DEF Resolves, Settle
    <2>2. CASE Rejects(c)
      <3>1. PICK n \in 0 .. Len(buffer[c]) : buffer' = [buffer EXCEPT ![c] = SubSeq(@, 1, n)]
        BY <2>2 DEF Rejects
      <3>2. Is(c, "download") <=> param[c].kind = "download"
        BY <1>1, <1>2 DEF Is
      <3>3. /\ outcome' = [outcome EXCEPT ![c] = "rejected"]
            /\ phase' = [phase EXCEPT ![c] = IF param[c].kind = "download" THEN "stat" ELSE "close"]
        BY <2>2, <3>2 DEF Rejects, Settle
      <3> QED
        BY <3>1, <3>3
    <2> QED
      BY <2>1, <2>2
  <1>4. /\ kept \in Seq(Bytes) /\ Len(kept) \in Nat /\ Len(kept) <= Len(buffer[c])
        /\ Len(buffer[c]) \in Nat /\ (buffer[c] = <<>> => kept = <<>>)
    <2>1. CASE kept = buffer[c]
      BY <1>2, <2>1
    <2>2. ASSUME NEW n \in 0 .. Len(buffer[c]), kept = SubSeq(buffer[c], 1, n)
          PROVE  /\ kept \in Seq(Bytes) /\ Len(kept) \in Nat /\ Len(kept) <= Len(buffer[c])
                 /\ Len(buffer[c]) \in Nat /\ (buffer[c] = <<>> => kept = <<>>)
      <3>1. n \in Int /\ Len(buffer[c]) \in Nat /\ \A i \in 1 .. n : buffer[c][i] \in Bytes
        BY <1>2
      <3>2. kept \in Seq(Bytes) /\ Len(kept) = IF 1 <= n THEN n - 1 + 1 ELSE 0
        BY <2>2, <3>1, SubSeqProperties
      <3>3. Len(kept) = n
        BY <3>1, <3>2
      <3>4. buffer[c] = <<>> => kept = <<>>
        BY <3>1, <3>2, <3>3, EmptySeq
      <3> QED
        BY <3>1, <3>2, <3>3, <3>4
    <2> QED
      BY <1>3, <2>1, <2>2
  <1>5. /\ how \in Outcomes /\ then \in Phases /\ then \in {"stat", "close"}
        /\ (then = "stat" => how = "rejected" /\ param[c].kind = "download")
        /\ (param[c].kind = "download" /\ how = "rejected" => then = "stat")
    BY <1>3 DEF Outcomes, Phases
  <1>6. /\ outcome'[c] = how /\ phase'[c] = then /\ buffer'[c] = kept
        /\ \A e \in Calls : e # c => /\ outcome'[e] = outcome[e] /\ phase'[e] = phase[e]
                                    /\ buffer'[e] = buffer[e]
    BY <1>t, <1>3 DEF Typed
  <1>7. Typed'
    BY <1>t, <1>1, <1>3, <1>4, <1>5 DEF Typed
  <1>8. \A e \in Calls : Busy(e)' <=> Busy(e)
    BY <1>1, <1>5, <1>6 DEF Busy
  <1>9. OneAtATime' /\ OpenIsBusy' /\ OpenExists'
    BY <1>1, <1>8 DEF Handling, OneAtATime, OpenIsBusy, OpenExists
  <1>10. HoldsItsFile'
    BY <1>1, <1>6, <1>8 DEF Handling, HoldsItsFile
  <1>11. Untouched' /\ OnlyDownloadsBuffer'
    BY <1>1, <1>2, <1>4, <1>5, <1>6 DEF Handling, Untouched, OnlyDownloadsBuffer
  <1>12. WithinReceived'
    <2> SUFFICES ASSUME NEW e \in Calls, fd[e] # None, param[e].kind = "download"
                 PROVE  /\ param[e].from <= pos[e]
                        /\ pos[e] + Len(buffer'[e]) <= param[e].from + Len(passed[e])
                        /\ param[e].from + Len(passed[e]) <= Size
      BY <1>1 DEF WithinReceived
    <2>1. /\ param[e].from <= pos[e]
          /\ pos[e] + Len(buffer[e]) <= param[e].from + Len(passed[e])
          /\ param[e].from + Len(passed[e]) <= Size
      BY DEF Handling, WithinReceived
    <2>2. CASE e # c
      BY <1>6, <2>1, <2>2
    <2>3. CASE e = c
      <3>1. pos[c] \in Nat /\ param[c].from \in Nat /\ Len(passed[c]) \in Nat
        BY <1>t, <1>2, ParamFacts, SizeAssumption DEF Typed
      <3> QED
        BY <1>4, <1>6, <2>1, <2>3, <3>1
    <2> QED
      BY <2>2, <2>3
  <1>13. CleansUpFailures'
    BY <1>1, <1>5, <1>6 DEF Handling, CleansUpFailures
  <1>14. NoEmptyRemains'
    BY <1>1, <1>5, <1>6 DEF Handling, NoEmptyRemains
  <1> QED
    BY <1>7, <1>9, <1>10, <1>11, <1>12, <1>13, <1>14 DEF Handling

LEMMA CleaningKeeps ==
    ASSUME Handling, NEW c \in Calls, Stats(c) \/ Unlinks(c)
    PROVE  Handling'
  <1> USE NoneAssumption, GoneAssumption
  <1>t. Typed
    BY DEF Handling
  <1>1. /\ phase[c] \in {"stat", "unlink"} /\ outcome[c] = "rejected" /\ param[c].kind = "download"
        /\ UNCHANGED <<outcome, param, original, fd, pos, buffer, passed, ended>>
    BY DEF Stats, Unlinks, stream, Handling, CleansUpFailures
  <1>2. Busy(c) /\ param[c] \in Params /\ fd[c] \in Descriptors /\ descriptors[fd[c]] = param[c].file
    BY <1>1, <1>t DEF Handling, HoldsItsFile, Untouched, Busy, Typed
  <1>3. param[c].file \in Files /\ param[c].from \in Nat
    BY <1>2, ParamFacts
  <1>4. PICK then : /\ phase' = [phase EXCEPT ![c] = then]
                    /\ \/ /\ Stats(c) /\ UNCHANGED <<files, descriptors>>
                          /\ then = IF shouldRemoveLocalFile(c) THEN "unlink" ELSE "close"
                       \/ Unlinks(c) /\ then = "close"
    BY DEF Stats, Unlinks, disk
  <1>5. then \in {"unlink", "close"} /\ then \in Phases
    BY <1>4 DEF Phases
  <1>6. /\ phase'[c] = then
        /\ \A e \in Calls : e # c => phase'[e] = phase[e]
    BY <1>t, <1>4 DEF Typed
  <1>7. \A e \in Calls : Busy(e)' <=> Busy(e)
    BY <1>1, <1>5, <1>6 DEF Busy
  <1>8. Untouched' /\ OnlyDownloadsBuffer' /\ WithinReceived' /\ OneAtATime'
    BY <1>1, <1>5, <1>6, <1>7
       DEF Handling, Untouched, OnlyDownloadsBuffer, WithinReceived, OneAtATime
  <1>9. ASSUME NEW e \in Calls, Busy(e) PROVE e = c
    BY <1>2, <1>9 DEF Handling, OneAtATime
  <1>10. CASE Stats(c)
    <2>1. UNCHANGED <<files, descriptors>> /\ phase[c] = "stat"
          /\ then = IF shouldRemoveLocalFile(c) THEN "unlink" ELSE "close"
      BY <1>4, <1>10 DEF Stats, Unlinks
    <2>2. Typed' /\ OpenIsBusy' /\ OpenExists'
      BY <1>t, <1>1, <1>4, <1>5, <1>7, <2>1 DEF Typed, Handling, OpenIsBusy, OpenExists
    <2>3. HoldsItsFile'
      BY <1>1, <1>2, <1>6, <1>7, <1>9, <2>1 DEF HoldsItsFile, Handling
    <2>4. CleansUpFailures'
      BY <1>1, <1>5, <1>6, <2>1 DEF Handling, CleansUpFailures, shouldRemoveLocalFile
    <2>5. NoEmptyRemains'
      <3>1. then = "close" => param[c].from > 0 \/ files[param[c].file] # <<>>
        BY <1>3, <2>1 DEF shouldRemoveLocalFile
      <3> QED
        BY <1>1, <1>6, <2>1, <3>1 DEF Handling, NoEmptyRemains
    <2> QED
      BY <1>8, <2>2, <2>3, <2>4, <2>5 DEF Handling
  <1>11. CASE Unlinks(c)
    <2>1. /\ phase[c] = "unlink" /\ then = "close" /\ param[c].from = 0
          /\ files' = [files EXCEPT ![param[c].file] = None]
          /\ descriptors' = [d \in Descriptors |->
                                IF descriptors[d] = param[c].file THEN Gone ELSE descriptors[d]]
      <3>1. phase[c] = "unlink"
        BY <1>11 DEF Unlinks
      <3>2. param[c].from = 0
        BY <3>1 DEF Handling, CleansUpFailures
      <3> QED
        BY <1>4, <1>11, <3>1, <3>2 DEF Unlinks, Stats
    <2>2. /\ files'[param[c].file] = None
          /\ \A f \in Files : f # param[c].file => files'[f] = files[f]
          /\ \A d \in Descriptors : descriptors'[d] = IF descriptors[d] = param[c].file
                                                     THEN Gone ELSE descriptors[d]
      BY <1>t, <1>3, <2>1 DEF Typed
    <2>3. Typed'
      BY <1>t, <1>1, <1>3, <1>4, <1>5, <2>1 DEF Typed
    <2>4. OpenIsBusy'
      BY <1>1, <1>3, <1>7, <2>2 DEF Handling, OpenIsBusy
    <2>5. OpenExists'
      BY <2>2 DEF Handling, OpenExists
    <2>6. HoldsItsFile'
      <3> SUFFICES ASSUME NEW e \in Calls, Busy(e)'
                   PROVE  /\ fd'[e] # None
                          /\ descriptors'[fd'[e]] = Gone /\ phase'[e] = "close"
                          /\ outcome'[e] = "rejected" /\ param'[e].from = 0
                          /\ param'[e].kind = "download"
        BY DEF HoldsItsFile
      <3>1. e = c
        BY <1>7, <1>9
      <3> QED
        BY <1>1, <1>2, <1>6, <2>1, <2>2, <3>1
    <2>7. CleansUpFailures'
      BY <1>1, <1>6, <2>1 DEF Handling, CleansUpFailures
    <2>8. NoEmptyRemains'
      <3> SUFFICES ASSUME NEW e \in Calls, phase'[e] = "close"
                   PROVE  files'[param[e].file] # <<>>
        BY <1>1 DEF NoEmptyRemains
      <3>1. Busy(e)'
        BY DEF Busy
      <3>2. e = c
        BY <1>7, <1>9, <3>1
      <3> QED
        BY <2>2, <3>2, EmptyContent
    <2> QED
      BY <1>8, <2>3, <2>4, <2>5, <2>6, <2>7, <2>8 DEF Handling
  <1> QED
    BY <1>10, <1>11

LEMMA ClosesKeeps ==
    ASSUME Handling, NEW c \in Calls, Closes(c)
    PROVE  Handling'
  <1> USE NoneAssumption, GoneAssumption
  <1>t. Typed
    BY DEF Handling
  <1>1. /\ phase[c] = "close" /\ UNCHANGED <<files, outcome, param, original, fd, pos, passed, ended>>
        /\ descriptors' = [descriptors EXCEPT ![fd[c]] = None]
        /\ phase' = [phase EXCEPT ![c] = "done"]
        /\ buffer' = [buffer EXCEPT ![c] = IF ended[c] THEN @ ELSE <<>>]
    BY DEF Closes
  <1>2. Busy(c) /\ param[c] \in Params /\ fd[c] \in Descriptors /\ buffer[c] \in Seq(Bytes)
    BY <1>1, <1>t DEF Handling, HoldsItsFile, Untouched, Busy, Typed
  <1>3. PICK kept : /\ buffer' = [buffer EXCEPT ![c] = kept]
                    /\ kept = buffer[c] \/ kept = <<>>
    BY <1>1
  <1>4. /\ phase'[c] = "done" /\ buffer'[c] = kept
        /\ \A e \in Calls : e # c => phase'[e] = phase[e] /\ buffer'[e] = buffer[e]
    BY <1>t, <1>1, <1>3 DEF Typed
  <1>5. /\ descriptors'[fd[c]] = None
        /\ \A d \in Descriptors : d # fd[c] => descriptors'[d] = descriptors[d]
    BY <1>t, <1>1, <1>2 DEF Typed
  <1>6. \A e \in Calls : ~Busy(e)'
    BY <1>2, <1>4 DEF Handling, OneAtATime, Busy
  <1>7. Typed'
    BY <1>t, <1>1, <1>2, <1>3, EmptyContent DEF Typed, Phases
  <1>8. OneAtATime' /\ HoldsItsFile'
    BY <1>6 DEF OneAtATime, HoldsItsFile
  <1>9. OpenIsBusy'
    <2> SUFFICES ASSUME NEW d \in Descriptors, descriptors'[d] # None
                 PROVE  FALSE
      BY DEF OpenIsBusy
    <2>1. d # fd[c] /\ descriptors[d] # None
      BY <1>5
    <2>2. PICK e \in Calls : fd[e] = d /\ Busy(e)
      BY <2>1 DEF Handling, OpenIsBusy
    <2> QED
      BY <1>2, <2>1, <2>2 DEF Handling, OneAtATime
  <1>10. OpenExists'
    BY <1>1, <1>5 DEF Handling, OpenExists
  <1>11. Untouched' /\ OnlyDownloadsBuffer'
    BY <1>1, <1>3, <1>4 DEF Handling, Untouched, OnlyDownloadsBuffer
  <1>12. WithinReceived'
    <2> SUFFICES ASSUME NEW e \in Calls, fd[e] # None, param[e].kind = "download"
                 PROVE  /\ param[e].from <= pos[e]
                        /\ pos[e] + Len(buffer'[e]) <= param[e].from + Len(passed[e])
                        /\ param[e].from + Len(passed[e]) <= Size
      BY <1>1 DEF WithinReceived
    <2>1. /\ param[e].from <= pos[e]
          /\ pos[e] + Len(buffer[e]) <= param[e].from + Len(passed[e])
          /\ param[e].from + Len(passed[e]) <= Size
      BY DEF Handling, WithinReceived
    <2>2. CASE buffer'[e] = buffer[e]
      BY <2>1, <2>2
    <2>3. CASE buffer'[e] # buffer[e]
      <3>1. e = c /\ buffer'[c] = <<>>
        BY <1>3, <1>4, <2>3
      <3>2. pos[c] \in Nat /\ param[c].from \in Nat /\ Len(passed[c]) \in Nat /\ Len(buffer[c]) \in Nat
        BY <1>t, <1>2, ParamFacts, SizeAssumption DEF Typed
      <3> QED
        BY <2>1, <3>1, <3>2, EmptyContent
    <2> QED
      BY <2>2, <2>3
  <1>13. CleansUpFailures' /\ NoEmptyRemains'
    BY <1>1, <1>4 DEF Handling, CleansUpFailures, NoEmptyRemains
  <1> QED
    BY <1>7, <1>8, <1>9, <1>10, <1>11, <1>12, <1>13 DEF Handling

LEMMA InitHandling == LocalInit => Handling
  <1> SUFFICES ASSUME LocalInit
               PROVE  Handling
    OBVIOUS
  <1> USE NoneAssumption, GoneAssumption
  <1>1. Typed
    BY DisksAssumption, SizeAssumption, EmptyContent DEF LocalInit, Typed, Phases, Outcomes
  <1>2. /\ \A c \in Calls : /\ phase[c] = "new" /\ outcome[c] = "none" /\ fd[c] = None
                            /\ buffer[c] = <<>> /\ passed[c] = <<>>
        /\ \A d \in Descriptors : descriptors[d] = None
    BY DEF LocalInit
  <1>3. OneAtATime /\ Untouched /\ HoldsItsFile /\ OpenIsBusy /\ OpenExists
    BY <1>2 DEF OneAtATime, Untouched, HoldsItsFile, OpenIsBusy, OpenExists, Busy
  <1>4. WithinReceived /\ OnlyDownloadsBuffer /\ CleansUpFailures /\ NoEmptyRemains
    BY <1>2 DEF WithinReceived, OnlyDownloadsBuffer, CleansUpFailures, NoEmptyRemains
  <1> QED
    BY <1>1, <1>3, <1>4 DEF Handling

LEMMA NextHandling == Handling /\ [LocalNext]_vars => Handling'
  <1> SUFFICES ASSUME Handling, [LocalNext]_vars
               PROVE  Handling'
    OBVIOUS
  <1>1. CASE UNCHANGED vars
    BY <1>1 DEF vars, disk, stream, Handling, Typed, OneAtATime, Untouched, HoldsItsFile,
                OpenIsBusy, OpenExists, WithinReceived, OnlyDownloadsBuffer, CleansUpFailures,
                NoEmptyRemains, Busy
  <1>2. ASSUME NEW c \in Calls,
               \/ \E p \in Params : Opens(c, p) \/ OpenFails(c, p)
               \/ Receives(c) \/ DataEnds(c) \/ Flushes(c) \/ Sends(c)
               \/ Resolves(c) \/ Rejects(c) \/ Stats(c) \/ Unlinks(c) \/ Closes(c)
        PROVE  Handling'
    BY <1>2, OpensKeeps, OpenFailsKeeps, PassingKeeps, FlushesKeeps, SettlingKeepsHandling,
       CleaningKeeps, ClosesKeeps
  <1> QED
    BY <1>1, <1>2 DEF LocalNext

LEMMA HandlingAlways == LocalSpec => []Handling
  BY InitHandling, NextHandling, PTL DEF LocalSpec

\* Files stay files, whoever writes to them, and the descriptors that are open
\* are those of the call that is running: none leaks, whichever way the
\* earlier calls ended (the finally blocks of _downloadToFile and
\* _uploadLocalFile).
THEOREM LocalTypeCorrect == LocalSpec => []LocalTypeOK
  <1>1. Handling => LocalTypeOK
    BY DEF Handling, Typed, OpenIsBusy, LocalTypeOK, Busy, Phases, Outcomes
  <1> QED
    BY <1>1, HandlingAlways, PTL

\* A failed download from the start leaves no empty file behind, also when a
\* late byte is written between the look at the file and its removal.
THEOREM NoEmptyFileRemains == LocalSpec => []NoEmptyRemains
  <1>1. Handling => NoEmptyRemains
    BY DEF Handling
  <1> QED
    BY <1>1, HandlingAlways, PTL

-----------------------------------------------------------------------------
(* Each step keeps the bytes, when descriptors are not handed out too early *)

LEMMA BusyFacts ==
    ASSUME Handling, NEW c \in Calls, Busy(c)
    PROVE  /\ fd[c] \in Descriptors /\ param[c] \in Params /\ param[c].file \in Files
           /\ param[c].from \in Nat /\ param[c].to \in Int /\ pos[c] \in Nat
           /\ param[c].kind \in {"download", "upload"}
           /\ buffer[c] \in Seq(Bytes) /\ passed[c] \in Seq(Bytes)
           /\ Len(buffer[c]) \in Nat /\ Len(passed[c]) \in Nat
           /\ descriptors[fd[c]] \in {param[c].file, Gone}
           /\ descriptors[fd[c]] = param[c].file => files[param[c].file] \in Contents
           /\ descriptors[fd[c]] = Gone => param[c].from = 0 /\ param[c].kind = "download"
                                          /\ outcome[c] = "rejected"
           /\ \A e \in Calls : Busy(e) => e = c
  <1>t. Typed
    BY DEF Handling
  <1>1. fd[c] \in Descriptors /\ param[c] \in Params
    BY <1>t DEF Handling, HoldsItsFile, Untouched, Typed
  <1>2. /\ param[c].file \in Files /\ param[c].from \in Nat /\ param[c].to \in Int
        /\ param[c].kind \in {"download", "upload"}
    BY <1>1, ParamFacts
  <1>3. /\ pos[c] \in Nat /\ buffer[c] \in Seq(Bytes) /\ passed[c] \in Seq(Bytes)
        /\ Len(buffer[c]) \in Nat /\ Len(passed[c]) \in Nat
    BY <1>t, SizeAssumption DEF Typed
  <1>4. /\ descriptors[fd[c]] \in {param[c].file, Gone}
        /\ descriptors[fd[c]] = Gone => param[c].from = 0 /\ param[c].kind = "download"
                                       /\ outcome[c] = "rejected"
    BY <1>2, GoneAssumption DEF Handling, HoldsItsFile
  <1>5. descriptors[fd[c]] = param[c].file => files[param[c].file] \in Contents
    BY <1>t, <1>1, <1>2 DEF Handling, OpenExists, Typed
  <1>6. \A e \in Calls : Busy(e) => e = c
    BY DEF Handling, OneAtATime
  <1> QED
    BY <1>1, <1>2, <1>3, <1>4, <1>5, <1>6

Kept == OverIsClosed /\ Downloaded /\ Uploaded

LEMMA OpensKeepsBytes ==
    ASSUME ~Reuse, Keeping, NEW c \in Calls, NEW p \in Params, Opens(c, p)
    PROVE  Kept'
  <1> USE NoneAssumption, GoneAssumption
  <1>t. Typed
    BY DEF Keeping, Handling
  <1>1. PICK d \in Descriptors :
           /\ descriptors[d] = None /\ \A e \in Calls : fd[e] = d => buffer[e] = <<>>
           /\ fd' = [fd EXCEPT ![c] = d]
           /\ descriptors' = [descriptors EXCEPT ![d] = p.file]
    BY DEF Opens, Available
  <1>2. /\ Idle /\ phase[c] = "new"
        /\ param' = [param EXCEPT ![c] = p] /\ original' = [original EXCEPT ![c] = files[p.file]]
        /\ ~Truncates(p) => files' = files /\ files[p.file] # None
        /\ pos' = [pos EXCEPT ![c] = p.from] /\ phase' = [phase EXCEPT ![c] = "running"]
        /\ UNCHANGED <<outcome, buffer, passed, ended>>
    BY DEF Opens, Start, StartsAt
  <1>3. /\ fd'[c] = d /\ param'[c] = p /\ pos'[c] = p.from /\ phase'[c] = "running"
        /\ original'[c] = files[p.file]
        /\ \A e \in Calls : e # c => fd'[e] = fd[e] /\ phase'[e] = phase[e]
    BY <1>1, <1>2, <1>t DEF Typed
  <1>4. \A b \in Descriptors : b # d => descriptors'[b] = descriptors[b]
    BY <1>1, <1>t DEF Typed
  <1>5. \A e \in Calls : ~Busy(e) /\ (Busy(e)' => e = c)
    BY <1>2, <1>3 DEF Idle, Busy
  <1>6. buffer[c] = <<>> /\ passed[c] = <<>> /\ fd[c] = None /\ outcome[c] = "none"
    BY <1>2 DEF Keeping, Handling, Untouched, CleansUpFailures
  <1>7. OverIsClosed'
    <2> SUFFICES ASSUME NEW e \in Calls, buffer[e] # <<>>
                 PROVE  descriptors'[fd'[e]] = None
      BY <1>2 DEF OverIsClosed
    <2>1. e # c /\ fd'[e] = fd[e]
      BY <1>3, <1>6
    <2>2. descriptors[fd[e]] = None
      BY <1>5 DEF Keeping, OverIsClosed
    <2>3. fd[e] # d /\ fd[e] \in Descriptors
      BY <1>1, <1>t DEF Keeping, Handling, Untouched, Typed
    <2> QED
      BY <1>4, <2>1, <2>2, <2>3
  <1>8. p.from \in Nat /\ p.file \in Files /\ p.kind \in {"download", "upload"}
    BY ParamFacts
  <1>9. Downloaded'
    <2> SUFFICES ASSUME p.kind = "download"
                 PROVE  DownloadsInto(c, files[p.file])'
      BY <1>3, <1>5 DEF Downloaded
    <2>1. p.from > 0 => files' = files /\ files[p.file] # None
      BY <1>2, <1>8 DEF Truncates
    <2> QED
      BY <1>2, <1>3, <1>6, <1>8, <2>1, EmptyContent DEF DownloadsInto
  <1>10. Uploaded'
    <2> SUFFICES ASSUME p.kind = "upload"
                 PROVE  UploadsFrom(c, files[p.file])'
      BY <1>3, <1>5 DEF Uploaded
    <2>1. files' = files /\ files[p.file] # None
      BY <1>2 DEF Truncates
    <2> QED
      BY <1>2, <1>3, <1>6, <1>8, <2>1, EmptyContent DEF UploadsFrom
  <1> QED
    BY <1>7, <1>9, <1>10 DEF Kept

LEMMA OpenFailsKeepsBytes ==
    ASSUME Keeping, NEW c \in Calls, NEW p \in Params, OpenFails(c, p)
    PROVE  Kept'
  <1>t. Typed
    BY DEF Keeping, Handling
  <1>1. /\ phase[c] = "new" /\ UNCHANGED <<files, descriptors, fd, pos, buffer, passed, ended>>
        /\ param' = [param EXCEPT ![c] = p] /\ original' = [original EXCEPT ![c] = files[p.file]]
        /\ phase' = [phase EXCEPT ![c] = "done"] /\ outcome' = [outcome EXCEPT ![c] = "rejected"]
    BY DEF OpenFails, Start, disk, stream
  <1>2. /\ phase'[c] = "done"
        /\ \A e \in Calls : e # c => /\ phase'[e] = phase[e] /\ outcome'[e] = outcome[e]
                                    /\ param'[e] = param[e] /\ original'[e] = original[e]
    BY <1>1, <1>t DEF Typed
  <1>3. \A e \in Calls : (Busy(e)' <=> Busy(e)) /\ (Busy(e)' => e # c)
    BY <1>1, <1>2 DEF Busy
  <1>4. OverIsClosed'
    BY <1>1, <1>3 DEF Keeping, OverIsClosed
  <1>5. Downloaded'
    <2> SUFFICES ASSUME NEW e \in Calls, Busy(e)', param'[e].kind = "download"
                 PROVE  DownloadsInto(e, files[param[e].file])'
      BY DEF Downloaded
    <2>1. e # c /\ DownloadsInto(e, files[param[e].file])
      BY <1>2, <1>3 DEF Keeping, Downloaded
    <2> QED
      BY <1>1, <1>2, <2>1 DEF DownloadsInto
  <1>6. Uploaded'
    <2> SUFFICES ASSUME NEW e \in Calls, Busy(e)', param'[e].kind = "upload"
                 PROVE  UploadsFrom(e, files[param[e].file])'
      BY DEF Uploaded
    <2>1. e # c /\ UploadsFrom(e, files[param[e].file])
      BY <1>2, <1>3 DEF Keeping, Uploaded
    <2> QED
      BY <1>1, <1>2, <2>1 DEF UploadsFrom, EndsAt
  <1> QED
    BY <1>4, <1>5, <1>6 DEF Kept

LEMMA ReceivesKeepsBytes ==
    ASSUME Keeping, NEW c \in Calls, Receives(c) \/ DataEnds(c)
    PROVE  Kept'
  <1>t. Handling /\ Typed
    BY DEF Keeping, Handling
  <1>1. /\ UNCHANGED <<files, descriptors, phase, outcome, param, original, fd, pos>>
        /\ phase[c] = "running" /\ param[c].kind = "download"
    BY DEF Receives, DataEnds, Is, disk
  <1>2. Busy(c) /\ \A e \in Calls : Busy(e)' <=> Busy(e)
    BY <1>1 DEF Busy
  <1>3. /\ param[c].from \in Nat /\ pos[c] \in Nat /\ buffer[c] \in Seq(Bytes)
        /\ passed[c] \in Seq(Bytes) /\ Len(buffer[c]) \in Nat /\ Len(passed[c]) \in Nat
        /\ \A e \in Calls : Busy(e) => e = c
    BY <1>t, <1>2, BusyFacts
  <1>4. Uploaded'
    <2> SUFFICES ASSUME NEW e \in Calls, Busy(e), param[e].kind = "upload"
                 PROVE  FALSE
      BY <1>1, <1>2 DEF Uploaded
    <2> QED
      BY <1>1, <1>3
  <1>5. outcome[c] = "none"
    BY <1>1 DEF Keeping, Handling, CleansUpFailures
  <1>6. DownloadsInto(c, files[param[c].file])
    BY <1>1, <1>2 DEF Keeping, Downloaded
  <1>7. param[c].from <= pos[c]
    BY <1>1, <1>2 DEF Keeping, Handling, WithinReceived, HoldsItsFile
  <1>8. CASE Receives(c)
    <2>1. PICK byte : /\ byte = <<c, param[c].from + Len(passed[c])>>
                      /\ buffer' = [buffer EXCEPT ![c] = Append(@, byte)]
                      /\ passed' = [passed EXCEPT ![c] = Append(@, byte)]
      BY <1>8 DEF Receives
    <2>2. /\ buffer'[c] = Append(buffer[c], byte) /\ passed'[c] = Append(passed[c], byte)
          /\ \A e \in Calls : e # c => buffer'[e] = buffer[e]
      BY <1>t, <2>1 DEF Typed
    <2>3. /\ Len(buffer'[c]) = Len(buffer[c]) + 1 /\ Len(passed'[c]) = Len(passed[c]) + 1
          /\ \A i \in 1 .. Len(buffer[c]) : buffer'[c][i] = buffer[c][i]
          /\ \A i \in 1 .. Len(passed[c]) : passed'[c][i] = passed[c][i]
          /\ buffer'[c][Len(buffer[c]) + 1] = byte /\ passed'[c][Len(passed[c]) + 1] = byte
      BY <1>3, <2>2
    <2>4. OverIsClosed'
      BY <1>1, <1>2, <2>2 DEF Keeping, OverIsClosed
    <2>5. PICK from, at, b, q : from = param[c].from /\ at = pos[c]
                                /\ b = Len(buffer[c]) /\ q = Len(passed[c])
      OBVIOUS
    <2>6. /\ from \in Nat /\ at \in Nat /\ b \in Nat /\ q \in Nat /\ from <= at /\ at + b = from + q
      BY <1>1, <1>3, <1>6, <1>7, <2>5 DEF DownloadsInto
    <2>7. \A i \in 1 .. b + 1 : buffer'[c][i] = passed'[c][at - from + i]
      <3> SUFFICES ASSUME NEW i \in 1 .. b + 1
                   PROVE  buffer'[c][i] = passed'[c][at - from + i]
        OBVIOUS
      <3>1. CASE i = b + 1
        <4>1. at - from + i = q + 1
          BY <2>6, <3>1
        <4> QED
          BY <2>3, <2>5, <3>1, <4>1
      <3>2. CASE i # b + 1
        <4>1. i \in 1 .. b /\ at - from + i \in 1 .. q
          BY <2>6, <3>2
        <4>2. buffer[c][i] = passed[c][at - from + i]
          BY <1>6, <2>5, <4>1 DEF DownloadsInto
        <4> QED
          BY <2>3, <2>5, <4>1, <4>2
      <3> QED
        BY <3>1, <3>2
    <2>8. \A i \in 1 .. at - from : passed'[c][i] = passed[c][i]
      <3>1. \A i \in 1 .. at - from : i \in 1 .. q
        BY <2>6
      <3> QED
        BY <2>3, <2>5, <3>1
    <2>9. at + (b + 1) = from + (q + 1)
      BY <2>6
    <2>10. DownloadsInto(c, files[param[c].file])'
      BY <1>1, <1>5, <1>6, <2>3, <2>5, <2>7, <2>8, <2>9 DEF DownloadsInto
    <2>11. Downloaded'
      BY <1>1, <1>2, <1>3, <2>10 DEF Downloaded
    <2> QED
      BY <1>4, <2>4, <2>11 DEF Kept
  <1>9. CASE DataEnds(c)
    <2>1. UNCHANGED <<buffer, passed>>
      BY <1>9 DEF DataEnds
    <2> QED
      BY <1>1, <1>2, <1>4, <2>1 DEF Kept, Keeping, OverIsClosed, Downloaded, DownloadsInto
  <1> QED
    BY <1>8, <1>9

LEMMA SendsKeepsBytes ==
    ASSUME Keeping, NEW c \in Calls, Sends(c)
    PROVE  Kept'
  <1>t. Handling /\ Typed
    BY DEF Keeping, Handling
  <1>1. /\ UNCHANGED <<files, descriptors, phase, outcome, param, original, fd, buffer>>
        /\ phase[c] = "running" /\ param[c].kind = "upload" /\ ~Exhausted(c)
        /\ passed' = [passed EXCEPT ![c] = Append(@, Content(fd[c])[pos[c] + 1])]
        /\ pos' = [pos EXCEPT ![c] = @ + 1]
    BY DEF Sends, Is, disk
  <1>2. Busy(c) /\ \A e \in Calls : Busy(e)' <=> Busy(e)
    BY <1>1 DEF Busy
  <1>3. /\ param[c].from \in Nat /\ param[c].to \in Int /\ pos[c] \in Nat
        /\ passed[c] \in Seq(Bytes) /\ Len(passed[c]) \in Nat
        /\ \A e \in Calls : Busy(e) => e = c
    BY <1>t, <1>2, BusyFacts
  <1>4. PICK content, byte :
           /\ content = files[param[c].file] /\ content \in Contents /\ Content(fd[c]) = content
           /\ byte = content[pos[c] + 1]
    BY <1>t, <1>1, RunningContent
  <1>5. Len(content) \in Nat
    BY <1>4, ContentIsSeq, SizeAssumption
  <1>6. pos[c] < Len(content) /\ ~(param[c].to >= 0 /\ pos[c] > param[c].to)
    BY <1>1, <1>3, <1>4, <1>5 DEF Exhausted, EndsAt
  <1>7. /\ passed'[c] = Append(passed[c], byte) /\ pos'[c] = pos[c] + 1
    BY <1>t, <1>1, <1>4 DEF Typed
  <1>8. /\ Len(passed'[c]) = Len(passed[c]) + 1 /\ passed'[c][Len(passed[c]) + 1] = byte
        /\ \A i \in 1 .. Len(passed[c]) : passed'[c][i] = passed[c][i]
    BY <1>3, <1>7
  <1>9. UploadsFrom(c, content)
    BY <1>1, <1>2, <1>4 DEF Keeping, Uploaded
  <1>10. outcome[c] = "none"
    BY <1>1 DEF Keeping, Handling, CleansUpFailures
  <1>11. UploadsFrom(c, content)'
    <2>1. /\ pos'[c] = param[c].from + Len(passed'[c]) /\ pos[c] = param[c].from + Len(passed[c])
      BY SMTT(30), <1>3, <1>7, <1>8, <1>9 DEF UploadsFrom
    <2>2. pos'[c] <= Len(content) /\ (param[c].to >= 0 => pos'[c] <= param[c].to + 1)
      BY <1>3, <1>5, <1>6, <1>7
    <2>3. \A i \in 1 .. Len(passed'[c]) : passed'[c][i] = content[param[c].from + i]
      <3> SUFFICES ASSUME NEW i \in 1 .. Len(passed'[c])
                   PROVE  passed'[c][i] = content[param[c].from + i]
        OBVIOUS
      <3>1. CASE i = Len(passed[c]) + 1
        <4>1. param[c].from + i = pos[c] + 1
          BY <1>3, <2>1, <3>1
        <4> QED
          BY <1>4, <1>8, <3>1, <4>1
      <3>2. CASE i # Len(passed[c]) + 1
        <4>1. i \in 1 .. Len(passed[c])
          BY <1>3, <1>8, <3>2
        <4> QED
          BY <1>8, <1>9, <4>1 DEF UploadsFrom
      <3> QED
        BY <3>1, <3>2
    <2> QED
      BY <1>1, <1>9, <1>10, <2>1, <2>2, <2>3 DEF UploadsFrom
  <1>12. Uploaded'
    BY <1>1, <1>2, <1>3, <1>4, <1>11 DEF Uploaded
  <1>13. Downloaded'
    <2> SUFFICES ASSUME NEW e \in Calls, Busy(e), param[e].kind = "download"
                 PROVE  FALSE
      BY <1>1, <1>2 DEF Downloaded
    <2> QED
      BY <1>1, <1>3
  <1>14. OverIsClosed'
    BY <1>1, <1>2 DEF Keeping, OverIsClosed
  <1> QED
    BY <1>12, <1>13, <1>14 DEF Kept

LEMMA FlushesKeepsBytes ==
    ASSUME Keeping, NEW c \in Calls, Flushes(c)
    PROVE  Kept'
  <1> USE NoneAssumption, GoneAssumption
  <1>t. Handling /\ Typed
    BY DEF Keeping, Handling
  <1>1. /\ buffer[c] # <<>> /\ pos' = [pos EXCEPT ![c] = @ + 1]
        /\ UNCHANGED <<descriptors, phase, outcome, param, original, fd, passed, ended>>
    BY DEF Flushes
  <1>2. \A e \in Calls : Busy(e)' <=> Busy(e)
    BY <1>1 DEF Busy
  <1>3. PICK target, head, rest, old, new :
           /\ target = descriptors[fd[c]] /\ head = Head(buffer[c])
           /\ rest = IF target = None THEN <<>> ELSE Tail(buffer[c])
           /\ old = files[target] /\ new = Written(old, pos[c], head)
           /\ buffer' = [buffer EXCEPT ![c] = rest]
           /\ files' = IF target \in {None, Gone} THEN files ELSE [files EXCEPT ![target] = new]
    BY DEF Flushes
  <1>4. /\ buffer'[c] = rest /\ pos'[c] = pos[c] + 1
        /\ \A e \in Calls : e # c => buffer'[e] = buffer[e] /\ pos'[e] = pos[e]
    BY <1>1, <1>3, <1>t DEF Typed
  <1>5. CASE ~Busy(c)
    <2>1. target = None
      BY <1>1, <1>3, <1>5 DEF Keeping, OverIsClosed
    <2>2. files' = files
      BY <1>3, <2>1
    <2>3. OverIsClosed'
      BY <1>1, <1>2, <1>3, <1>4, <2>1 DEF Keeping, OverIsClosed
    <2>4. Downloaded'
      <3> SUFFICES ASSUME NEW e \in Calls, Busy(e), param[e].kind = "download"
                   PROVE  DownloadsInto(e, files[param[e].file])'
        BY <1>1, <1>2 DEF Downloaded
      <3>1. e # c /\ DownloadsInto(e, files[param[e].file])
        BY <1>5 DEF Keeping, Downloaded
      <3> QED
        BY <1>1, <1>4, <2>2, <3>1 DEF DownloadsInto
    <2>5. Uploaded'
      <3> SUFFICES ASSUME NEW e \in Calls, Busy(e), param[e].kind = "upload"
                   PROVE  UploadsFrom(e, files[param[e].file])'
        BY <1>1, <1>2 DEF Uploaded
      <3>1. e # c /\ UploadsFrom(e, files[param[e].file])
        BY <1>5 DEF Keeping, Uploaded
      <3> QED
        BY <1>1, <1>4, <2>2, <3>1 DEF UploadsFrom, EndsAt
    <2> QED
      BY <2>3, <2>4, <2>5 DEF Kept
  <1>6. CASE Busy(c)
    <2>1. param[c].kind = "download"
      BY <1>1 DEF Keeping, Handling, OnlyDownloadsBuffer
    <2>2. PICK from, at, q, s, r, file :
             /\ from = param[c].from /\ at = pos[c] /\ q = passed[c] /\ s = buffer[c]
             /\ r = original[c] /\ file = param[c].file
      OBVIOUS
    <2>3. /\ fd[c] \in Descriptors /\ file \in Files /\ from \in Nat /\ at \in Nat
          /\ s \in Seq(Bytes) /\ q \in Seq(Bytes) /\ Len(s) \in Nat /\ Len(q) \in Nat
          /\ target \in {file, Gone} /\ (target = Gone => from = 0)
          /\ \A e \in Calls : Busy(e) => e = c
      BY <1>t, <1>3, <1>6, <2>2, BusyFacts
    <2>4. /\ Head(s) = s[1] /\ Len(s) >= 1 /\ Head(s) \in Bytes /\ Tail(s) \in Seq(Bytes)
          /\ Len(Tail(s)) = Len(s) - 1 /\ \A i \in 1 .. Len(Tail(s)) : Tail(s)[i] = s[i + 1]
      BY <1>1, <2>2, <2>3, HeadTailProperties, EmptySeq
    <2>5. rest = Tail(s) /\ head = s[1]
      BY <1>3, <2>2, <2>3, <2>4
    <2>6. /\ from <= at /\ at + Len(s) <= from + Len(q) /\ from + Len(q) <= Size
      BY <2>1, <2>2, <2>3 DEF Keeping, Handling, WithinReceived
    <2>7. DownloadsInto(c, files[file])
      BY <1>6, <2>1, <2>2 DEF Keeping, Downloaded
    <2>8. at < Size /\ at \in 0 .. Size
      BY <2>3, <2>4, <2>6, SizeAssumption
    <2>9. outcome[c] # "resolved"
      <3>1. outcome[c] = "resolved" => at = from + Len(q)
        BY <2>2, <2>7 DEF DownloadsInto
      <3> QED
        BY <2>3, <2>4, <2>6, <3>1
    <2>10. phase[c] = "running" => (at + 1) + Len(rest) = from + Len(q)
      <3>1. phase[c] = "running" => at + Len(s) = from + Len(q)
        BY <2>2, <2>7 DEF DownloadsInto
      <3> QED
        BY <2>3, <2>4, <2>5, <3>1
    <2>11. \A i \in 1 .. Len(rest) : rest[i] = q[(at + 1) - from + i]
      <3> SUFFICES ASSUME NEW i \in 1 .. Len(rest)
                   PROVE  rest[i] = q[(at + 1) - from + i]
        OBVIOUS
      <3>1. i + 1 \in 1 .. Len(s) /\ (at + 1) - from + i = at - from + (i + 1)
        BY <2>3, <2>4, <2>5
      <3>2. s[i + 1] = q[at - from + (i + 1)]
        BY <2>2, <2>7, <3>1 DEF DownloadsInto
      <3> QED
        BY <2>4, <2>5, <3>1, <3>2
    <2>a. /\ phase'[c] = phase[c] /\ param'[c].file = file /\ param'[c].from = from
           /\ passed'[c] = q /\ original'[c] = r /\ pos'[c] = at + 1 /\ buffer'[c] = rest
      BY <1>1, <1>4, <2>2
    <2>12. CASE target = Gone
      <3>1. files' = files /\ from = 0 /\ target # file
        BY <1>3, <2>3, <2>12
      <3> QED
        <4>1. DownloadsInto(c, files[param[c].file])'
          <5>1. param'[c].from = 0 /\ descriptors'[fd'[c]] # param'[c].file
            BY <1>1, <1>3, <2>2, <3>1
          <5>2. phase'[c] = "running" => pos'[c] + Len(buffer'[c]) = param'[c].from + Len(passed'[c])
            BY <2>a, <2>10
          <5>3. outcome'[c] # "resolved"
            BY <1>1, <2>9
          <5>4. \A i \in 1 .. Len(buffer'[c]) : buffer'[c][i] = passed'[c][pos'[c] - param'[c].from + i]
            BY <2>a, <2>11
          <5> QED
            BY <5>1, <5>2, <5>3, <5>4 DEF DownloadsInto
        <4>2. Downloaded' /\ Uploaded'
          BY <1>1, <1>2, <2>1, <2>3, <4>1 DEF Downloaded, Uploaded
        <4>3. OverIsClosed'
          BY <1>1, <1>2, <1>4, <1>6 DEF Keeping, OverIsClosed
        <4> QED
          BY <4>2, <4>3 DEF Kept
    <2>13. CASE target = file
      <3>1. old = files[file] /\ old \in Contents /\ target \notin {None, Gone}
        BY <1>t, <1>3, <1>6, <2>2, <2>3, <2>13, BusyFacts
      <3>2. /\ Len(new) \in Nat /\ Len(new) >= Len(old) /\ Len(new) >= at + 1
            /\ new[at + 1] = head /\ \A i \in 1 .. Len(old) : i # at + 1 => new[i] = old[i]
            /\ Len(old) \in Nat
        <4>1. Len(old) \in Nat
          BY <3>1, ContentIsSeq, SizeAssumption
        <4>2. head \in Bytes /\ new = Written(old, at, head)
          BY <1>3, <2>2, <2>4, <2>5
        <4> QED
          BY <2>8, <3>1, <4>1, <4>2, WrittenFacts
      <3>3. files'[file] = new
        BY <1>3, <1>t, <2>3, <2>13, <3>1 DEF Typed
      <3>4. \A i \in 1 .. (at + 1) - from : new[from + i] = q[i]
        <4> SUFFICES ASSUME NEW i \in 1 .. (at + 1) - from
                     PROVE  new[from + i] = q[i]
          OBVIOUS
        <4>1. CASE i = at - from + 1
          <5>1. from + i = at + 1 /\ 1 \in 1 .. Len(s)
            BY <2>3, <2>4, <4>1
          <5>2. s[1] = q[at - from + 1]
            BY <2>2, <2>7, <5>1 DEF DownloadsInto
          <5> QED
            BY <2>5, <3>2, <4>1, <5>1, <5>2
        <4>2. CASE i # at - from + 1
          <5>1. i \in 1 .. at - from /\ at > from
            BY <2>3, <4>2
          <5>2. at <= Len(old) /\ old[from + i] = q[i]
            BY <1>3, <2>2, <2>7, <2>13, <3>1, <5>1 DEF DownloadsInto
          <5>3. from + i \in 1 .. Len(old) /\ from + i # at + 1
            BY <2>3, <3>2, <5>1, <5>2
          <5> QED
            BY <3>2, <5>2, <5>3
        <4> QED
          BY <4>1, <4>2
      <3>5. from > 0 => /\ r # None
                        /\ \A i \in 1 .. Len(r) :
                              i \notin from + 1 .. at + 1 => i <= Len(new) /\ new[i] = r[i]
        <4> SUFFICES ASSUME from > 0
                     PROVE  /\ r # None
                            /\ \A i \in 1 .. Len(r) :
                                  i \notin from + 1 .. at + 1 => i <= Len(new) /\ new[i] = r[i]
          OBVIOUS
        <4>1. /\ r # None
              /\ \A i \in 1 .. Len(r) :
                    i \notin from + 1 .. at => i <= Len(old) /\ old[i] = r[i]
          BY <2>2, <2>7, <3>1 DEF DownloadsInto
        <4>2. ASSUME NEW i \in 1 .. Len(r), i \notin from + 1 .. at + 1
              PROVE  i <= Len(new) /\ new[i] = r[i]
          <5>1. i \notin from + 1 .. at /\ i # at + 1 /\ i \in Int /\ i >= 1
            BY <2>3, <2>6, <4>2
          <5>2. i <= Len(old) /\ old[i] = r[i]
            BY <4>1, <5>1
          <5>3. i \in 1 .. Len(old)
            BY <3>2, <5>1, <5>2
          <5> QED
            BY <3>2, <5>1, <5>2, <5>3
        <4> QED
          BY <4>1, <4>2
      <3>6. DownloadsInto(c, files[param[c].file])'
        <4>1. files'[param'[c].file] = new
          BY <2>a, <3>3
        <4>2. phase'[c] = "running" => pos'[c] + Len(buffer'[c]) = param'[c].from + Len(passed'[c])
          BY <2>a, <2>10
        <4>3. outcome'[c] # "resolved"
          BY <1>1, <2>9
        <4>4. \A i \in 1 .. Len(buffer'[c]) : buffer'[c][i] = passed'[c][pos'[c] - param'[c].from + i]
          BY <2>a, <2>11
        <4>5. pos'[c] <= Len(new)
          BY <2>a, <2>3, <3>2
        <4>6. \A i \in 1 .. pos'[c] - param'[c].from : new[param'[c].from + i] = passed'[c][i]
          BY <2>a, <3>4
        <4>7. param'[c].from > 0 =>
                /\ original'[c] # None
                /\ \A i \in 1 .. Len(original'[c]) :
                      i \notin param'[c].from + 1 .. pos'[c] => i <= Len(new) /\ new[i] = original'[c][i]
          BY <2>a, <3>5
        <4> QED
          BY <4>1, <4>2, <4>3, <4>4, <4>5, <4>6, <4>7 DEF DownloadsInto
      <3>7. Downloaded' /\ Uploaded'
        BY <1>1, <1>2, <2>1, <2>3, <3>6 DEF Downloaded, Uploaded
      <3>8. OverIsClosed'
        BY <1>1, <1>2, <1>4, <1>6 DEF Keeping, OverIsClosed
      <3> QED
        BY <3>7, <3>8 DEF Kept
    <2> QED
      BY <2>3, <2>12, <2>13
  <1> QED
    BY <1>5, <1>6

LEMMA SettlingKeepsBytes ==
    ASSUME Keeping, NEW c \in Calls, Resolves(c) \/ Rejects(c)
    PROVE  Kept'
  <1> USE NoneAssumption, GoneAssumption
  <1>t. Handling /\ Typed
    BY DEF Keeping, Handling
  <1>1. /\ phase[c] = "running"
        /\ UNCHANGED <<files, descriptors, param, original, fd, pos, passed, ended>>
    BY DEF Resolves, Rejects, Settle, disk
  <1>2. Busy(c)
    BY <1>1 DEF Busy
  <1>3. PICK from, at, q, s, content :
           /\ from = param[c].from /\ at = pos[c] /\ q = passed[c] /\ s = buffer[c]
           /\ content = files[param[c].file]
    OBVIOUS
  <1>4. /\ from \in Nat /\ at \in Nat /\ s \in Seq(Bytes) /\ Len(s) \in Nat /\ Len(q) \in Nat
        /\ param[c] \in Params /\ param[c] # None /\ param[c].kind \in {"download", "upload"}
        /\ fd[c] # None /\ \A e \in Calls : Busy(e) => e = c
    BY <1>t, <1>2, <1>3, BusyFacts
  <1>5. PICK how, then, kept :
           /\ outcome' = [outcome EXCEPT ![c] = how] /\ phase' = [phase EXCEPT ![c] = then]
           /\ buffer' = [buffer EXCEPT ![c] = kept]
           /\ then \in {"stat", "close"}
           /\ Len(kept) \in Nat /\ Len(kept) <= Len(s)
           /\ \A i \in 1 .. Len(kept) : kept[i] = s[i]
           /\ how = "resolved" =>
                 /\ param[c].kind = "download" => s = <<>>
                 /\ param[c].kind = "upload" => Exhausted(c)
    <2>1. CASE Resolves(c)
      <3>1. /\ outcome' = [outcome EXCEPT ![c] = "resolved"] /\ phase' = [phase EXCEPT ![c] = "close"]
            /\ buffer' = [buffer EXCEPT ![c] = s]
        BY <1>3, <1>t, <2>1 DEF Resolves, Settle, Typed
      <3>2. /\ param[c].kind = "download" => s = <<>>
            /\ param[c].kind = "upload" => Exhausted(c)
        BY <1>3, <1>4, <2>1 DEF Resolves
      <3> WITNESS "resolved", "close", s
      <3> QED
        BY <1>4, <3>1, <3>2
    <2>2. CASE Rejects(c)
      <3>1. PICK n \in 0 .. Len(s) : buffer' = [buffer EXCEPT ![c] = SubSeq(s, 1, n)]
        BY <1>t, <1>3, <2>2 DEF Rejects, Typed
      <3>2. n \in Nat /\ \A i \in 1 .. n : s[i] \in Bytes
        BY <1>4
      <3>3. PICK kept : kept = SubSeq(s, 1, n)
        OBVIOUS
      <3>4. /\ Len(kept) = IF 1 <= n THEN n - 1 + 1 ELSE 0
            /\ \A i \in 1 .. n - 1 + 1 : kept[i] = s[1 + i - 1]
        BY <3>2, <3>3, SubSeqProperties
      <3>5. Len(kept) = n /\ \A i \in 1 .. n : kept[i] = s[i]
        BY <3>2, <3>4
      <3>6. PICK then : /\ phase' = [phase EXCEPT ![c] = then] /\ then \in {"stat", "close"}
                        /\ outcome' = [outcome EXCEPT ![c] = "rejected"]
        BY <2>2 DEF Rejects, Settle
      <3> WITNESS "rejected", then, kept
      <3> QED
        BY <1>4, <3>1, <3>2, <3>3, <3>5, <3>6
    <2> QED
      BY <2>1, <2>2
  <1>6. /\ outcome'[c] = how /\ phase'[c] = then /\ buffer'[c] = kept
        /\ \A e \in Calls : e # c => phase'[e] = phase[e] /\ buffer'[e] = buffer[e]
    BY <1>t, <1>5 DEF Typed
  <1>7. \A e \in Calls : Busy(e)' <=> Busy(e)
    BY <1>1, <1>5, <1>6 DEF Busy
  <1>8. OverIsClosed'
    BY <1>1, <1>2, <1>6, <1>7 DEF Keeping, OverIsClosed
  <1>9. Downloaded'
    <2> SUFFICES ASSUME param[c].kind = "download"
                 PROVE  DownloadsInto(c, files[param[c].file])'
      BY <1>1, <1>4, <1>7 DEF Downloaded
    <2>1. DownloadsInto(c, content)
      BY <1>2, <1>3 DEF Keeping, Downloaded
    <2>2. phase'[c] # "running"
      BY <1>5, <1>6
    <2>3. outcome'[c] = "resolved" => at = from + Len(q)
      <3>1. at + Len(s) = from + Len(q)
        BY <1>1, <1>3, <2>1 DEF DownloadsInto
      <3> QED
        BY <1>4, <1>5, <1>6, <3>1, EmptyContent
    <2>4. \A i \in 1 .. Len(kept) : kept[i] = q[at - from + i]
      <3> SUFFICES ASSUME NEW i \in 1 .. Len(kept)
                   PROVE  kept[i] = q[at - from + i]
        OBVIOUS
      <3>1. i \in 1 .. Len(s)
        BY <1>4, <1>5
      <3>2. s[i] = q[at - from + i]
        BY <1>3, <2>1, <3>1 DEF DownloadsInto
      <3> QED
        BY <1>5, <3>2
    <2>5. /\ descriptors[fd[c]] = param[c].file =>
               /\ at > from => at <= Len(content)
               /\ \A i \in 1 .. at - from : content[from + i] = q[i]
          /\ from > 0 =>
               /\ original[c] # None
               /\ \A i \in 1 .. Len(original[c]) :
                     i \notin from + 1 .. at => i <= Len(content) /\ content[i] = original[c][i]
      BY <1>3, <2>1 DEF DownloadsInto
    <2> QED
      BY <1>1, <1>3, <1>6, <2>2, <2>3, <2>4, <2>5 DEF DownloadsInto
  <1>10. Uploaded'
    <2> SUFFICES ASSUME param[c].kind = "upload"
                 PROVE  UploadsFrom(c, files[param[c].file])'
      BY <1>1, <1>4, <1>7 DEF Uploaded
    <2>1. UploadsFrom(c, content)
      BY <1>2, <1>3 DEF Keeping, Uploaded
    <2>2. outcome'[c] = "resolved" => at >= Len(content) \/ EndsAt(c)
      <3>1. Content(fd[c]) = content
        BY <1>t, <1>1, <1>3, RunningContent
      <3> QED
        BY <1>3, <1>5, <1>6, <3>1 DEF Exhausted
    <2>3. EndsAt(c)' <=> EndsAt(c)
      BY <1>1 DEF EndsAt
    <2> QED
      BY <1>1, <1>3, <2>1, <2>2, <2>3 DEF UploadsFrom
  <1> QED
    BY <1>8, <1>9, <1>10 DEF Kept

LEMMA CleaningKeepsBytes ==
    ASSUME Keeping, NEW c \in Calls, Stats(c) \/ Unlinks(c)
    PROVE  Kept'
  <1> USE NoneAssumption, GoneAssumption
  <1>t. Handling /\ Typed
    BY DEF Keeping, Handling
  <1>1. /\ phase[c] \in {"stat", "unlink"} /\ outcome[c] = "rejected" /\ param[c].kind = "download"
        /\ UNCHANGED <<outcome, param, original, fd, pos, buffer, passed, ended>>
    BY <1>t DEF Stats, Unlinks, stream, Handling, CleansUpFailures
  <1>2. Busy(c)
    BY <1>1 DEF Busy
  <1>3. /\ fd[c] \in Descriptors /\ param[c].file \in Files
        /\ \A e \in Calls : Busy(e) => e = c
    BY <1>t, <1>2, BusyFacts
  <1>4. PICK then \in {"unlink", "close"} : phase' = [phase EXCEPT ![c] = then]
    BY DEF Stats, Unlinks
  <1>5. phase'[c] = then /\ \A e \in Calls : e # c => phase'[e] = phase[e]
    BY <1>t, <1>4 DEF Typed
  <1>6. \A e \in Calls : Busy(e)' <=> Busy(e)
    BY <1>2, <1>4, <1>5 DEF Busy
  <1>7. DownloadsInto(c, files[param[c].file])
    BY <1>1, <1>2 DEF Keeping, Downloaded
  <1>8. Uploaded'
    BY <1>1, <1>3, <1>6 DEF Uploaded
  <1>9. CASE Stats(c)
    <2>1. UNCHANGED <<files, descriptors>>
      BY <1>9 DEF Stats, disk
    <2>2. OverIsClosed'
      BY <1>1, <1>6, <2>1 DEF Keeping, OverIsClosed
    <2>3. DownloadsInto(c, files[param[c].file])'
      BY <1>1, <1>4, <1>5, <1>7, <2>1 DEF DownloadsInto
    <2>4. Downloaded'
      BY <1>1, <1>3, <1>6, <2>3 DEF Downloaded
    <2> QED
      BY <1>8, <2>2, <2>4 DEF Kept
  <1>10. CASE Unlinks(c)
    <2>1. /\ descriptors' = [d \in Descriptors |->
                                IF descriptors[d] = param[c].file THEN Gone ELSE descriptors[d]]
          /\ phase[c] = "unlink"
      BY <1>10 DEF Unlinks
    <2>2. param[c].from = 0
      BY <1>t, <2>1 DEF Handling, CleansUpFailures
    <2>3. OverIsClosed'
      <3> SUFFICES ASSUME NEW e \in Calls, buffer[e] # <<>>, ~Busy(e)
                   PROVE  descriptors'[fd[e]] = None
        BY <1>1, <1>6 DEF OverIsClosed
      <3>1. descriptors[fd[e]] = None
        BY DEF Keeping, OverIsClosed
      <3>2. fd[e] \in Descriptors
        BY <1>t DEF Handling, Untouched, Typed
      <3> QED
        BY <1>3, <2>1, <3>1, <3>2
    <2>4. descriptors'[fd[c]] # param[c].file
      BY <1>3, <2>1
    <2>5. DownloadsInto(c, files[param[c].file])'
      BY <1>1, <1>4, <1>5, <1>7, <2>2, <2>4 DEF DownloadsInto
    <2>6. Downloaded'
      BY <1>1, <1>3, <1>6, <2>5 DEF Downloaded
    <2> QED
      BY <1>8, <2>3, <2>6 DEF Kept
  <1> QED
    BY <1>9, <1>10

LEMMA ClosesKeepsBytes ==
    ASSUME Keeping, NEW c \in Calls, Closes(c)
    PROVE  Kept'
  <1>t. Handling /\ Typed
    BY DEF Keeping, Handling
  <1>1. /\ phase[c] = "close" /\ UNCHANGED <<fd, param>>
        /\ descriptors' = [descriptors EXCEPT ![fd[c]] = None]
        /\ phase' = [phase EXCEPT ![c] = "done"]
        /\ buffer' = [buffer EXCEPT ![c] = IF ended[c] THEN @ ELSE <<>>]
    BY DEF Closes
  <1>2. Busy(c)
    BY <1>1 DEF Busy
  <1>3. fd[c] \in Descriptors /\ \A e \in Calls : Busy(e) => e = c
    BY <1>t, <1>2, BusyFacts
  <1>4. phase'[c] = "done" /\ \A e \in Calls : e # c => phase'[e] = phase[e] /\ buffer'[e] = buffer[e]
    BY <1>t, <1>1 DEF Typed
  <1>5. \A d \in Descriptors : descriptors'[d] = IF d = fd[c] THEN None ELSE descriptors[d]
    BY <1>t, <1>1, <1>3 DEF Typed
  <1>6. \A e \in Calls : ~Busy(e)'
    BY <1>3, <1>4 DEF Busy
  <1>7. OverIsClosed'
    <2> SUFFICES ASSUME NEW e \in Calls, e # c, buffer[e] # <<>>
                 PROVE  descriptors'[fd[e]] = None
      BY <1>1, <1>3, <1>4, <1>5 DEF OverIsClosed
    <2>1. descriptors[fd[e]] = None
      BY <1>3 DEF Keeping, OverIsClosed
    <2>2. fd[e] \in Descriptors
      BY <1>t DEF Handling, Untouched, Typed
    <2> QED
      BY <1>5, <2>1, <2>2
  <1> QED
    BY <1>6, <1>7 DEF Kept, Downloaded, Uploaded

LEMMA InitKeeping == LocalInit => Keeping
  <1> SUFFICES ASSUME LocalInit
               PROVE  Keeping
    OBVIOUS
  <1>1. Handling
    BY InitHandling
  <1>2. \A c \in Calls : phase[c] = "new" /\ buffer[c] = <<>>
    BY DEF LocalInit
  <1> QED
    BY <1>1, <1>2 DEF Keeping, OverIsClosed, Downloaded, Uploaded, Busy

LEMMA NextKeeping == ~Reuse /\ Keeping /\ [LocalNext]_vars => Keeping'
  <1> SUFFICES ASSUME ~Reuse, Keeping, [LocalNext]_vars
               PROVE  Keeping'
    OBVIOUS
  <1>1. Handling'
    BY NextHandling DEF Keeping
  <1>2. CASE UNCHANGED vars
    <2>1. OverIsClosed'
      BY <1>2 DEF Keeping, OverIsClosed, Busy, vars, disk, stream
    <2>2. Downloaded'
      BY <1>2 DEF Keeping, Downloaded, DownloadsInto, Busy, vars, disk, stream
    <2>3. Uploaded'
      BY <1>2 DEF Keeping, Uploaded, UploadsFrom, EndsAt, Busy, vars, disk, stream
    <2> QED
      BY <1>1, <2>1, <2>2, <2>3 DEF Keeping
  <1>3. ASSUME NEW c \in Calls,
               \/ \E p \in Params : Opens(c, p) \/ OpenFails(c, p)
               \/ Receives(c) \/ DataEnds(c) \/ Flushes(c) \/ Sends(c)
               \/ Resolves(c) \/ Rejects(c) \/ Stats(c) \/ Unlinks(c) \/ Closes(c)
        PROVE  Kept'
    BY <1>3, OpensKeepsBytes, OpenFailsKeepsBytes, ReceivesKeepsBytes, SendsKeepsBytes,
       FlushesKeepsBytes, SettlingKeepsBytes, CleaningKeepsBytes, ClosesKeepsBytes
  <1> QED
    BY <1>1, <1>2, <1>3 DEF LocalNext, Keeping, Kept

LEMMA KeepingAlways ==
    ASSUME ~Reuse
    PROVE  LocalSpec => []Keeping
  BY InitKeeping, NextKeeping, PTL DEF LocalSpec

\* Where the operating system does not hand out the number of a descriptor an
\* earlier stream still writes to, a resumed download never touches the bytes
\* before its position, and never removes the file.
THEOREM ResumeKeeps ==
    ASSUME ~Reuse
    PROVE  LocalSpec => []ResumeKeepsBytes
  <1>1. Keeping => ResumeKeepsBytes
    <2> SUFFICES ASSUME Keeping, NEW c \in Calls, Busy(c), param[c].from > 0
                 PROVE  /\ files[param[c].file] # None
                        /\ \A i \in 1 .. Len(original[c]) :
                              i <= param[c].from =>
                                  /\ i <= Len(files[param[c].file])
                                  /\ files[param[c].file][i] = original[c][i]
      BY DEF ResumeKeepsBytes, Busy
    <2>1. /\ param[c].from \in Nat /\ param[c].kind \in {"download", "upload"}
          /\ descriptors[fd[c]] \in {param[c].file, Gone}
          /\ descriptors[fd[c]] = param[c].file => files[param[c].file] \in Contents
          /\ descriptors[fd[c]] = Gone => param[c].from = 0
      BY BusyFacts DEF Keeping
    <2>2. files[param[c].file] \in Contents
      BY <2>1
    <2>3. files[param[c].file] # None
      BY <2>2, NoneAssumption
    <2>4. CASE param[c].kind = "download"
      <3>1. DownloadsInto(c, files[param[c].file])
        BY <2>4 DEF Keeping, Downloaded
      <3>2. \A i \in 1 .. Len(original[c]) :
               i \notin param[c].from + 1 .. pos[c] =>
                   /\ i <= Len(files[param[c].file])
                   /\ files[param[c].file][i] = original[c][i]
        BY <3>1 DEF DownloadsInto
      <3>3. \A i \in Int : i <= param[c].from => i \notin param[c].from + 1 .. pos[c]
        BY <2>1
      <3> QED
        BY <2>3, <3>2, <3>3
    <2>5. CASE param[c].kind = "upload"
      <3>1. files[param[c].file] = original[c]
        BY <2>5 DEF Keeping, Uploaded, UploadsFrom
      <3>2. Len(original[c]) \in Nat
        BY <2>2, <3>1, ContentIsSeq, SizeAssumption
      <3> QED
        BY <2>3, <3>1, <3>2
    <2> QED
      BY <2>1, <2>4, <2>5
  <1> QED
    BY <1>1, KeepingAlways, PTL

LEMMA PartOfContent ==
    ASSUME NEW content \in Contents, NEW q \in Seq(Bytes), NEW from \in Nat, NEW end \in Nat,
           from < end => end <= Len(content),
           Len(q) = IF from < end THEN end - from ELSE 0,
           \A i \in 1 .. Len(q) : content[from + i] = q[i]
    PROVE  SubSeq(content, from + 1, end) = q
  <1>1. Len(content) \in Nat /\ \A i \in 1 .. Len(content) : content[i] \in Bytes
    BY ContentIsSeq, SizeAssumption
  <1>2. PICK part : part = SubSeq(content, from + 1, end)
    OBVIOUS
  <1>3. \A i \in from + 1 .. end : content[i] \in Bytes
    BY <1>1
  <1>4. /\ part \in Seq(Bytes)
        /\ Len(part) = IF from + 1 <= end THEN end - (from + 1) + 1 ELSE 0
        /\ \A i \in 1 .. end - (from + 1) + 1 : part[i] = content[(from + 1) + i - 1]
    BY <1>2, <1>3, SubSeqProperties
  <1>5. Len(part) = Len(q)
    BY <1>4
  <1>6. \A i \in 1 .. Len(part) : part[i] = q[i]
    <2> SUFFICES ASSUME NEW i \in 1 .. Len(part)
                 PROVE  part[i] = q[i]
      OBVIOUS
    <2>1. i \in 1 .. end - (from + 1) + 1 /\ (from + 1) + i - 1 = from + i
      BY <1>4
    <2> QED
      BY <1>4, <1>5, <2>1
  <1> QED
    BY <1>2, <1>4, <1>5, <1>6, SeqEqual

\* What ResolvedIsComplete says of a call.
Complete(c, p, content, old) ==
    IF p.kind = "upload"
    THEN passed[c] = SubSeq(old, p.from + 1,
                            IF p.to >= 0 /\ p.to < Len(old) THEN p.to + 1 ELSE Len(old))
    ELSE /\ SubSeq(content, p.from + 1, p.from + Len(passed[c])) = passed[c]
         /\ p.from > 0 => \A i \in 1 .. Len(old) :
                i \notin p.from + 1 .. p.from + Len(passed[c]) =>
                    i <= Len(content) /\ content[i] = old[i]

\* Under the same assumption, what is resolved is complete: a download has
\* written every byte it received where it belongs and changed nothing else,
\* an upload has sent the part of the file that was asked for.
THEOREM ResolvedTransfersAreComplete ==
    ASSUME ~Reuse
    PROVE  LocalSpec => []ResolvedIsComplete
  <1>1. Keeping => ResolvedIsComplete
    <2> SUFFICES ASSUME Keeping, NEW c \in Calls, phase[c] = "close", outcome[c] = "resolved"
                 PROVE  Complete(c, param[c], files[param[c].file], original[c])
      BY DEF ResolvedIsComplete, Complete
    <2> SUFFICES ASSUME NEW p, p = param[c], NEW content, content = files[p.file],
                        NEW old, old = original[c]
                 PROVE  Complete(c, p, content, old)
      OBVIOUS
    <2>1. Busy(c) /\ Handling
      BY DEF Busy, Keeping
    <2>2. PICK from, to, at, q : from = p.from /\ to = p.to /\ at = pos[c] /\ q = passed[c]
      OBVIOUS
    <2>3. /\ from \in Nat /\ to \in Int /\ at \in Nat /\ q \in Seq(Bytes) /\ Len(q) \in Nat
          /\ p.kind \in {"download", "upload"}
      BY <2>1, <2>2, BusyFacts
    <2>4. descriptors[fd[c]] = p.file /\ content \in Contents
      <3>1. descriptors[fd[c]] = p.file
        BY <2>1 DEF Handling, HoldsItsFile
      <3> QED
        BY <2>1, <3>1, BusyFacts
    <2>5. Len(content) \in Nat
      BY <2>4, ContentIsSeq, SizeAssumption
    <2>6. CASE p.kind = "upload"
      <3>1. UploadsFrom(c, content)
        BY <2>1, <2>6 DEF Keeping, Uploaded
      <3>2. /\ content = old /\ at = from + Len(q)
            /\ at > from => at <= Len(content) /\ (to >= 0 => at <= to + 1)
            /\ \A i \in 1 .. Len(q) : content[from + i] = q[i]
        BY <2>2, <3>1 DEF UploadsFrom
      <3>3. at >= Len(content) \/ (to >= 0 /\ at > to)
        BY <2>2, <3>1 DEF UploadsFrom, EndsAt
      <3>4. PICK end : end = IF to >= 0 /\ to < Len(content) THEN to + 1 ELSE Len(content)
        OBVIOUS
      <3>5. end \in Nat /\ end <= Len(content)
        BY <2>3, <2>5, <3>4
      <3>6. Len(q) = IF from < end THEN end - from ELSE 0
        BY <2>3, <2>5, <3>2, <3>3, <3>4
      <3>7. SubSeq(content, from + 1, end) = q
        BY <2>3, <2>4, <3>2, <3>5, <3>6, PartOfContent
      <3> QED
        BY <2>2, <2>6, <3>2, <3>4, <3>7 DEF Complete
    <2>7. CASE p.kind = "download"
      <3>1. DownloadsInto(c, content)
        BY <2>1, <2>7 DEF Keeping, Downloaded
      <3>2. /\ at = from + Len(q)
            /\ at > from => at <= Len(content)
            /\ \A i \in 1 .. at - from : content[from + i] = q[i]
            /\ from > 0 => \A i \in 1 .. Len(old) :
                              i \notin from + 1 .. at => i <= Len(content) /\ content[i] = old[i]
        BY <2>2, <2>4, <3>1 DEF DownloadsInto
      <3>3. /\ at \in Nat /\ Len(q) = (IF from < at THEN at - from ELSE 0)
            /\ \A i \in 1 .. Len(q) : content[from + i] = q[i]
        BY <2>3, <3>2
      <3>4. SubSeq(content, from + 1, at) = q
        BY <2>3, <2>4, <3>2, <3>3, PartOfContent
      <3> QED
        BY <2>2, <2>7, <3>2, <3>4 DEF Complete
    <2> QED
      BY <2>3, <2>6, <2>7
  <1> QED
    BY <1>1, KeepingAlways, PTL
=============================================================================
