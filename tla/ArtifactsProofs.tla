-------------------------- MODULE ArtifactsProofs --------------------------
(***************************************************************************)
(* What the write protocol guarantees for any number of artifacts, crashes *)
(* and power losses.                                                       *)
(***************************************************************************)
EXTENDS Artifacts, SequenceTheorems, TLAPS

Ops == {"mkdir", "open", "write", "fsync", "replace", "fsync_dir"}
Calls == Ops \X (Files \cup {"dir"})

(* The calls for one file. *)
LEMMA PutCalls ==
  ASSUME NEW f \in Files
  PROVE  /\ Put(f) \in Seq(Calls)
         /\ Len(Put(f)) = 4
         /\ Put(f)[1] = <<"open", f>>
         /\ Put(f)[2] = <<"write", f>>
         /\ Put(f)[3] = <<"fsync", f>>
         /\ Put(f)[4] = <<"replace", f>>
<1> DEFINE a == <<"open", f>>
           b == <<"write", f>>
           c == <<"fsync", f>>
           d == <<"replace", f>>
<1>1. a \in Calls /\ b \in Calls /\ c \in Calls /\ d \in Calls
  BY DEF Calls, Ops
<1>2. Put(f) = <<a, b, c, d>>
  BY DEF Put
<1> HIDE DEF a, b, c, d
<1>3. /\ <<a, b, c, d>> \in Seq(Calls)
      /\ Len(<<a, b, c, d>>) = 4
      /\ <<a, b, c, d>>[1] = a
      /\ <<a, b, c, d>>[2] = b
      /\ <<a, b, c, d>>[3] = c
      /\ <<a, b, c, d>>[4] = d
  BY <1>1
<1>4. /\ Put(f) \in Seq(Calls)
      /\ Len(Put(f)) = 4
      /\ Put(f)[1] = a
      /\ Put(f)[2] = b
      /\ Put(f)[3] = c
      /\ Put(f)[4] = d
  BY <1>2, <1>3
<1> QED
  BY <1>4 DEF a, b, c, d

LEMMA SingleCall ==
  ASSUME NEW e \in Calls
  PROVE  /\ <<e>> \in Seq(Calls)
         /\ Len(<<e>>) = 1
         /\ <<e>>[1] = e
  OBVIOUS

(* What stands where in a concatenation. *)
LEMMA Joined ==
  ASSUME NEW s \in Seq(Calls), NEW t \in Seq(Calls), NEW q, q = s \o t
  PROVE  /\ q \in Seq(Calls)
         /\ Len(q) = Len(s) + Len(t)
         /\ \A i \in 1 .. Len(s) + Len(t) : q[i] = IF i <= Len(s) THEN s[i] ELSE t[i - Len(s)]
  BY ConcatProperties

(* The protocol, call by call. *)
LEMMA ProgramCalls ==
  /\ Len(WriteProgram) = 10
  /\ DOMAIN WriteProgram = 1 .. 10
  /\ WriteProgram[1] = <<"mkdir", "dir">>
  /\ WriteProgram[2] = <<"open", "audio">>
  /\ WriteProgram[3] = <<"write", "audio">>
  /\ WriteProgram[4] = <<"fsync", "audio">>
  /\ WriteProgram[5] = <<"replace", "audio">>
  /\ WriteProgram[6] = <<"open", "sidecar">>
  /\ WriteProgram[7] = <<"write", "sidecar">>
  /\ WriteProgram[8] = <<"fsync", "sidecar">>
  /\ WriteProgram[9] = <<"replace", "sidecar">>
  /\ WriteProgram[10] = <<"fsync_dir", "dir">>
<1> DEFINE first == <<"mkdir", "dir">>
           last == <<"fsync_dir", "dir">>
           s == <<first>>
           t == Put("audio")
           u == Put("sidecar")
           v == <<last>>
           st == s \o t
           stu == st \o u
           w == stu \o v
<1>1. WriteProgram = w
  BY DEF WriteProgram
<1>2. first \in Calls /\ last \in Calls
  BY DEF Calls, Ops
<1> HIDE DEF first, last
<1>3. /\ s \in Seq(Calls) /\ Len(s) = 1 /\ s[1] = first
      /\ v \in Seq(Calls) /\ Len(v) = 1 /\ v[1] = last
  BY <1>2, SingleCall
<1>4. /\ t \in Seq(Calls) /\ Len(t) = 4
      /\ u \in Seq(Calls) /\ Len(u) = 4
  BY PutCalls DEF Files
<1> HIDE DEF s, t, u, v
<1>5. /\ st \in Seq(Calls)
      /\ Len(st) = Len(s) + Len(t)
      /\ \A i \in 1 .. Len(s) + Len(t) : st[i] = IF i <= Len(s) THEN s[i] ELSE t[i - Len(s)]
  <2>1. s \in Seq(Calls) /\ t \in Seq(Calls)
    BY <1>3, <1>4
  <2>2. st = s \o t
    OBVIOUS
  <2> HIDE DEF st
  <2> QED
    BY <2>1, <2>2, Joined
<1> HIDE DEF st
<1>6. Len(st) = 5 /\ \A i \in 1 .. 5 : st[i] = IF i <= 1 THEN s[i] ELSE t[i - 1]
  BY <1>3, <1>4, <1>5
<1>7. /\ stu \in Seq(Calls)
      /\ Len(stu) = Len(st) + Len(u)
      /\ \A i \in 1 .. Len(st) + Len(u) : stu[i] = IF i <= Len(st) THEN st[i] ELSE u[i - Len(st)]
  <2>1. st \in Seq(Calls) /\ u \in Seq(Calls)
    BY <1>4, <1>5
  <2>2. stu = st \o u
    OBVIOUS
  <2> HIDE DEF stu
  <2> QED
    BY <2>1, <2>2, Joined
<1> HIDE DEF stu
<1>8. Len(stu) = 9 /\ \A i \in 1 .. 9 : stu[i] = IF i <= 5 THEN st[i] ELSE u[i - 5]
  BY <1>4, <1>6, <1>7
<1>9. /\ w \in Seq(Calls)
      /\ Len(w) = Len(stu) + Len(v)
      /\ \A i \in 1 .. Len(stu) + Len(v) : w[i] = IF i <= Len(stu) THEN stu[i] ELSE v[i - Len(stu)]
  <2>1. stu \in Seq(Calls) /\ v \in Seq(Calls)
    BY <1>3, <1>7
  <2>2. w = stu \o v
    OBVIOUS
  <2> HIDE DEF w
  <2> QED
    BY <2>1, <2>2, Joined
<1> HIDE DEF w
<1>10. Len(w) = 10 /\ \A i \in 1 .. 10 : w[i] = IF i <= 9 THEN stu[i] ELSE v[i - 9]
  BY <1>3, <1>8, <1>9
<1>11. DOMAIN w = 1 .. 10
  BY <1>9, <1>10, LenProperties
<1>12. /\ st[1] = first
       /\ st[2] = t[1] /\ st[3] = t[2] /\ st[4] = t[3] /\ st[5] = t[4]
  BY <1>3, <1>6
<1>13. /\ stu[1] = st[1] /\ stu[2] = st[2] /\ stu[3] = st[3] /\ stu[4] = st[4] /\ stu[5] = st[5]
       /\ stu[6] = u[1] /\ stu[7] = u[2] /\ stu[8] = u[3] /\ stu[9] = u[4]
  BY <1>8
<1>14. /\ w[1] = stu[1] /\ w[2] = stu[2] /\ w[3] = stu[3] /\ w[4] = stu[4] /\ w[5] = stu[5]
       /\ w[6] = stu[6] /\ w[7] = stu[7] /\ w[8] = stu[8] /\ w[9] = stu[9]
       /\ w[10] = last
  BY <1>3, <1>10
<1>15. /\ w[1] = first
       /\ w[2] = t[1] /\ w[3] = t[2] /\ w[4] = t[3] /\ w[5] = t[4]
       /\ w[6] = u[1] /\ w[7] = u[2] /\ w[8] = u[3] /\ w[9] = u[4]
       /\ w[10] = last
  BY <1>12, <1>13, <1>14
<1>16. /\ t[1] = <<"open", "audio">> /\ t[2] = <<"write", "audio">>
       /\ t[3] = <<"fsync", "audio">> /\ t[4] = <<"replace", "audio">>
       /\ u[1] = <<"open", "sidecar">> /\ u[2] = <<"write", "sidecar">>
       /\ u[3] = <<"fsync", "sidecar">> /\ u[4] = <<"replace", "sidecar">>
  BY PutCalls DEF t, u, Files
<1> QED
  BY <1>1, <1>10, <1>11, <1>15, <1>16 DEF first, last

(* Operation and file of each call. *)
LEMMA ProgramOps ==
  /\ WriteProgram[1][1] = "mkdir"
  /\ WriteProgram[2][1] = "open" /\ WriteProgram[2][2] = "audio"
  /\ WriteProgram[3][1] = "write" /\ WriteProgram[3][2] = "audio"
  /\ WriteProgram[4][1] = "fsync" /\ WriteProgram[4][2] = "audio"
  /\ WriteProgram[5][1] = "replace" /\ WriteProgram[5][2] = "audio"
  /\ WriteProgram[6][1] = "open" /\ WriteProgram[6][2] = "sidecar"
  /\ WriteProgram[7][1] = "write" /\ WriteProgram[7][2] = "sidecar"
  /\ WriteProgram[8][1] = "fsync" /\ WriteProgram[8][2] = "sidecar"
  /\ WriteProgram[9][1] = "replace" /\ WriteProgram[9][2] = "sidecar"
  /\ WriteProgram[10][1] = "fsync_dir"
<1>1. WriteProgram[1][1] = "mkdir"
  <2>1. WriteProgram[1] = <<"mkdir", "dir">>
    BY ProgramCalls
  <2> QED
    BY <2>1
<1>2. WriteProgram[2][1] = "open" /\ WriteProgram[2][2] = "audio"
  <2>1. WriteProgram[2] = <<"open", "audio">>
    BY ProgramCalls
  <2> QED
    BY <2>1
<1>3. WriteProgram[3][1] = "write" /\ WriteProgram[3][2] = "audio"
  <2>1. WriteProgram[3] = <<"write", "audio">>
    BY ProgramCalls
  <2> QED
    BY <2>1
<1>4. WriteProgram[4][1] = "fsync" /\ WriteProgram[4][2] = "audio"
  <2>1. WriteProgram[4] = <<"fsync", "audio">>
    BY ProgramCalls
  <2> QED
    BY <2>1
<1>5. WriteProgram[5][1] = "replace" /\ WriteProgram[5][2] = "audio"
  <2>1. WriteProgram[5] = <<"replace", "audio">>
    BY ProgramCalls
  <2> QED
    BY <2>1
<1>6. WriteProgram[6][1] = "open" /\ WriteProgram[6][2] = "sidecar"
  <2>1. WriteProgram[6] = <<"open", "sidecar">>
    BY ProgramCalls
  <2> QED
    BY <2>1
<1>7. WriteProgram[7][1] = "write" /\ WriteProgram[7][2] = "sidecar"
  <2>1. WriteProgram[7] = <<"write", "sidecar">>
    BY ProgramCalls
  <2> QED
    BY <2>1
<1>8. WriteProgram[8][1] = "fsync" /\ WriteProgram[8][2] = "sidecar"
  <2>1. WriteProgram[8] = <<"fsync", "sidecar">>
    BY ProgramCalls
  <2> QED
    BY <2>1
<1>9. WriteProgram[9][1] = "replace" /\ WriteProgram[9][2] = "sidecar"
  <2>1. WriteProgram[9] = <<"replace", "sidecar">>
    BY ProgramCalls
  <2> QED
    BY <2>1
<1>10. WriteProgram[10][1] = "fsync_dir"
  <2>1. WriteProgram[10] = <<"fsync_dir", "dir">>
    BY ProgramCalls
  <2> QED
    BY <2>1
<1> QED
  BY <1>1, <1>2, <1>3, <1>4, <1>5, <1>6, <1>7, <1>8, <1>9, <1>10

LEMMA Positions == at \in DOMAIN WriteProgram => at \in {1, 2, 3, 4, 5, 6, 7, 8, 9, 10}
<1>1. DOMAIN WriteProgram = 1 .. 10
  BY ProgramCalls
<1> QED
  BY <1>1

(* What a step of the protocol calls, by its place. *)
LEMMA CallAt ==
  ASSUME WriteCalls
  PROVE  \/ at = 1 /\ Mkdir(writing)
         \/ at = 2 /\ OpenTmp(writing, "audio")
         \/ at = 3 /\ Write(writing, "audio")
         \/ at = 4 /\ Fsync(writing, "audio")
         \/ at = 5 /\ Replace(writing, "audio")
         \/ at = 6 /\ OpenTmp(writing, "sidecar")
         \/ at = 7 /\ Write(writing, "sidecar")
         \/ at = 8 /\ Fsync(writing, "sidecar")
         \/ at = 9 /\ Replace(writing, "sidecar")
         \/ at = 10 /\ FsyncDir(writing)
<1>1. at \in {1, 2, 3, 4, 5, 6, 7, 8, 9, 10}
  BY Positions DEF WriteCalls
<1>2. Call(writing, WriteProgram[at][1], WriteProgram[at][2])
  BY DEF WriteCalls
<1> DEFINE op == WriteProgram[at][1]
           f == WriteProgram[at][2]
<1>3. \/ op = "mkdir" /\ Mkdir(writing)
      \/ op = "open" /\ OpenTmp(writing, f)
      \/ op = "write" /\ Write(writing, f)
      \/ op = "fsync" /\ Fsync(writing, f)
      \/ op = "replace" /\ Replace(writing, f)
      \/ op = "fsync_dir" /\ FsyncDir(writing)
  BY <1>2 DEF Call
<1>4. \/ at = 1 /\ op = "mkdir"
      \/ at = 2 /\ op = "open" /\ f = "audio"
      \/ at = 3 /\ op = "write" /\ f = "audio"
      \/ at = 4 /\ op = "fsync" /\ f = "audio"
      \/ at = 5 /\ op = "replace" /\ f = "audio"
      \/ at = 6 /\ op = "open" /\ f = "sidecar"
      \/ at = 7 /\ op = "write" /\ f = "sidecar"
      \/ at = 8 /\ op = "fsync" /\ f = "sidecar"
      \/ at = 9 /\ op = "replace" /\ f = "sidecar"
      \/ at = 10 /\ op = "fsync_dir"
  BY <1>1, ProgramOps
<1> HIDE DEF op, f
<1> QED
  BY <1>3, <1>4

(* ... and which contents a call that fails half way spoils. *)
LEMMA WriteAt ==
  ASSUME at \in DOMAIN WriteProgram, WriteProgram[at][1] = "write"
  PROVE  \/ at = 3 /\ WriteProgram[at][2] = "audio"
         \/ at = 7 /\ WriteProgram[at][2] = "sidecar"
<1>1. at \in {1, 2, 3, 4, 5, 6, 7, 8, 9, 10}
  BY Positions
<1> QED
  BY <1>1, ProgramOps
-----------------------------------------------------------------------------
(* The names of a directory are distinct. *)
LEMMA NameFacts ==
  /\ Itself \in UNION Image
  /\ \A f \in Files : Tmp(f) \in UNION Image /\ Final(f) \in UNION Image
  /\ \A f, g \in Files : /\ Final(f) # Tmp(g)
                         /\ Final(f) # Itself
                         /\ Final(f) = Final(g) => f = g
<1>1. UNION Image = {Itself} \cup {Tmp(f) : f \in Files} \cup {Final(f) : f \in Files}
  BY DEF Image
<1>2. Itself \in UNION Image
  BY <1>1
<1>3. \A f \in Files : Tmp(f) \in UNION Image /\ Final(f) \in UNION Image
  BY <1>1
<1> QED
  BY <1>2, <1>3 DEF Final, Tmp, Itself

LEMMA ImageSets == \A S : S \in Image <=> S \subseteq UNION Image
  BY DEF Image

LEMMA AppendImage ==
  ASSUME NEW q \in Seq(Image), NEW e \in Image
  PROVE  /\ Append(q, e) \in Seq(Image)
         /\ Len(Append(q, e)) = Len(q) + 1
         /\ \A i \in 1 .. Len(q) : Append(q, e)[i] = q[i]
         /\ Append(q, e)[Len(q) + 1] = e
         /\ Last(Append(q, e)) = e
  BY DEF Last
-----------------------------------------------------------------------------
(* Under its final name a file is on disk and whole, in every image that a *)
(* power loss could bring back, and the sidecar is never there alone.      *)
FsInv == \A j \in Jobs :
  /\ \A f \in safe[j] : data[j][f] = "whole"
  /\ \A i \in 1 .. Len(images[j]) :
       /\ \A f \in Files : Final(f) \in images[j][i] => f \in safe[j]
       /\ Final("sidecar") \in images[j][i] => Final("audio") \in images[j][i]

(* How far the write that is under way has come. *)
ProgressInv == writing # NoJob =>
  /\ outcome[writing] = "begun"
  /\ at <= 3 => data[writing]["audio"] = "none"
  /\ at > 3 => data[writing]["audio"] = "whole"
  /\ at > 4 => "audio" \in safe[writing]
  /\ at > 5 => Final("audio") \in Names(writing)
  /\ at <= 7 => data[writing]["sidecar"] = "none"
  /\ at > 7 => data[writing]["sidecar"] = "whole"
  /\ at > 8 => "sidecar" \in safe[writing]
  /\ at > 9 => Final("sidecar") \in Names(writing)
  /\ at > 10 => kept[writing] = Len(images[writing])

(* A job not begun has no contents; one that returned is all on disk.      *)
OutcomeInv == \A j \in Jobs :
  /\ outcome[j] = "none" => \A f \in Files : data[j][f] = "none"
  /\ outcome[j] = "returned" => Complete(j) /\ kept[j] = Len(images[j])

Inv == FsInv /\ ProgressInv /\ OutcomeInv

IInv == TypeOK /\ Inv

(* The actions a step is made of, with the protocol's calls by place. *)
LEMMA StepCases ==
  ASSUME [Next]_vars
  PROVE  \/ \E j \in Jobs : WriteBegins(j) \/ Writeback(j)
         \/ WriteCalls \/ WriteReturns \/ WriteRaises \/ Crash \/ PowerLoss
         \/ UNCHANGED vars
  BY DEF Next

(* The image a directory change adds. *)
LEMMA Changed ==
  ASSUME TypeOK, NEW j \in Jobs, NEW e \in Image, Becomes(j, e)
  PROVE  /\ images' \in [Jobs -> Seq(Image)]
         /\ \A k \in Jobs \ {j} : images'[k] = images[k]
         /\ Len(images'[j]) = Len(images[j]) + 1
         /\ \A i \in 1 .. Len(images[j]) : images'[j][i] = images[j][i]
         /\ images'[j][Len(images[j]) + 1] = e
         /\ Last(images'[j]) = e
  BY AppendImage DEF TypeOK, Becomes

(* A directory always has a last image. *)
LEMMA LastImage ==
  ASSUME TypeOK, NEW j \in Jobs
  PROVE  /\ Len(images[j]) \in 1 .. Len(images[j])
         /\ Last(images[j]) = images[j][Len(images[j])]
         /\ Last(images[j]) \in Image
  BY DEF TypeOK, Last

(* Losing power cuts the images back to what is on disk. *)
LEMMA CutBack ==
  ASSUME TypeOK, NEW j \in Jobs
  PROVE  /\ SubSeq(images[j], 1, kept[j]) \in Seq(Image)
         /\ Len(SubSeq(images[j], 1, kept[j])) = kept[j]
         /\ \A i \in 1 .. kept[j] : SubSeq(images[j], 1, kept[j])[i] = images[j][i]
<1>1. images[j] \in Seq(Image) /\ kept[j] \in 1 .. Len(images[j])
  BY DEF TypeOK
<1> DEFINE q == images[j]
           n == kept[j]
<1>2. q \in Seq(Image) /\ n \in 1 .. Len(q)
  BY <1>1
<1> HIDE DEF q, n
<1>3. /\ SubSeq(q, 1, n) \in Seq(Image)
      /\ Len(SubSeq(q, 1, n)) = n
      /\ \A i \in 1 .. n : SubSeq(q, 1, n)[i] = q[i]
  BY <1>2
<1> QED
  BY <1>3 DEF q, n

(* What an image must be like to be added. *)
Sound(j, e) == /\ \A f \in Files : Final(f) \in e => f \in safe[j]
               /\ Final("sidecar") \in e => Final("audio") \in e

LEMMA ChangeKeepsFs ==
  ASSUME TypeOK, FsInv, NEW j \in Jobs, NEW e \in Image, Sound(j, e),
         Becomes(j, e), UNCHANGED <<data, safe>>
  PROVE  FsInv'
<1>1. /\ \A k \in Jobs \ {j} : images'[k] = images[k]
      /\ Len(images'[j]) = Len(images[j]) + 1
      /\ \A i \in 1 .. Len(images[j]) : images'[j][i] = images[j][i]
      /\ images'[j][Len(images[j]) + 1] = e
  BY Changed
<1>2. Len(images[j]) \in Nat
  BY DEF TypeOK
<1>3. \A i \in 1 .. Len(images'[j]) : i \in 1 .. Len(images[j]) \/ i = Len(images[j]) + 1
  BY <1>1, <1>2
<1> QED
  BY <1>1, <1>3 DEF FsInv, Sound

(* The images that the protocol adds, with the last one before them.       *)
LEMMA Images ==
  ASSUME TypeOK, FsInv, NEW j \in Jobs, NEW f \in Files
  PROVE  /\ {Itself} \in Image /\ Sound(j, {Itself})
         /\ Names(j) \cup {Tmp(f)} \in Image
         /\ Sound(j, Names(j) \cup {Tmp(f)})
         /\ \A g \in Files : Final(g) \in Names(j) \cup {Tmp(f)} <=> Final(g) \in Names(j)
         /\ (Names(j) \ {Tmp(f)}) \cup {Final(f)} \in Image
         /\ \A g \in Files : Final(g) \in (Names(j) \ {Tmp(f)}) \cup {Final(f)}
                               <=> Final(g) \in Names(j) \/ g = f
         /\ \A g \in Files : Final(g) \in Names(j) => g \in safe[j]
         /\ Final("sidecar") \in Names(j) => Final("audio") \in Names(j)
<1>1. /\ Names(j) \subseteq UNION Image
      /\ \A g \in Files : Final(g) \in Names(j) => g \in safe[j]
      /\ Final("sidecar") \in Names(j) => Final("audio") \in Names(j)
  BY LastImage, ImageSets DEF FsInv, Names
<1>2. \A g \in Files : /\ Tmp(g) \in UNION Image
                       /\ Final(g) \in UNION Image
                       /\ Final(g) # Itself
                       /\ \A h \in Files : Final(g) # Tmp(h) /\ (Final(g) = Final(h) => g = h)
  BY NameFacts
<1>3. "sidecar" \in Files /\ "audio" \in Files
  BY DEF Files
<1>4. {Itself} \in Image
  BY NameFacts, ImageSets
<1>5. Names(j) \cup {Tmp(f)} \in Image
  BY <1>1, <1>2, ImageSets
<1>6. (Names(j) \ {Tmp(f)}) \cup {Final(f)} \in Image
  BY <1>1, <1>2, ImageSets
<1> QED
  BY <1>1, <1>2, <1>3, <1>4, <1>5, <1>6 DEF Sound

(* A finished sidecar is renamed only after the audio. *)
LEMMA ReplaceSound ==
  ASSUME TypeOK, FsInv, NEW j \in Jobs, NEW f \in safe[j],
         f = "sidecar" => Final("audio") \in Names(j)
  PROVE  Sound(j, (Names(j) \ {Tmp(f)}) \cup {Final(f)})
<1>1. f \in Files /\ "sidecar" \in Files /\ "audio" \in Files
  BY DEF TypeOK, Files
<1> QED
  BY <1>1, Images DEF Sound, Files
-----------------------------------------------------------------------------
(* What the calls of the protocol preserve. *)
LEMMA CallsKeepInv == ASSUME IInv, WriteCalls PROVE IInv'
<1> DEFINE j == writing
<1>0. /\ TypeOK /\ FsInv /\ ProgressInv /\ OutcomeInv
      /\ "audio" \in Files /\ "sidecar" \in Files
  BY DEF IInv, Inv, Files
<1>1. /\ j \in Jobs
      /\ j # NoJob
      /\ at \in {1, 2, 3, 4, 5, 6, 7, 8, 9, 10}
      /\ at' = at + 1
      /\ UNCHANGED <<writing, outcome>>
  BY <1>0, Positions DEF WriteCalls, TypeOK
<1>2. Len(WriteProgram) = 10
  BY ProgramCalls
<1>3. outcome[j] = "begun"
  BY <1>0, <1>1 DEF ProgressInv
<1>4. ASSUME NEW e \in Image, Becomes(j, e), Sound(j, e), UNCHANGED <<kept, data, safe>>
      PROVE  /\ TypeOK' /\ FsInv' /\ OutcomeInv'
             /\ Names(j)' = e
  <2>1. /\ images' \in [Jobs -> Seq(Image)]
        /\ \A k \in Jobs \ {j} : images'[k] = images[k]
        /\ Len(images'[j]) = Len(images[j]) + 1
        /\ Last(images'[j]) = e
    BY <1>0, <1>1, <1>4, Changed
  <2>2. FsInv'
    BY <1>0, <1>1, <1>4, ChangeKeepsFs
  <2>3. \A k \in Jobs : kept'[k] \in 1 .. Len(images'[k])
    BY <1>0, <1>1, <1>4, <2>1 DEF TypeOK
  <2>4. TypeOK'
    BY <1>0, <1>1, <1>2, <1>4, <2>1, <2>3 DEF TypeOK
  <2>5. OutcomeInv'
    BY <1>0, <1>1, <1>3, <1>4, <2>1 DEF OutcomeInv, Complete, Names
  <2> QED
    BY <1>1, <2>1, <2>2, <2>4, <2>5 DEF Names
<1>5. CASE at = 1 /\ Mkdir(j)
  <2>1. {Itself} \in Image /\ Sound(j, {Itself})
    BY <1>0, <1>1, Images
  <2>2. TypeOK' /\ FsInv' /\ OutcomeInv'
    BY <1>4, <1>5, <2>1 DEF Mkdir
  <2> QED
    BY <1>0, <1>1, <1>5, <2>2 DEF IInv, Inv, ProgressInv, Mkdir
<1>6. CASE at = 2 /\ OpenTmp(j, "audio")
  <2>1. Names(j) \cup {Tmp("audio")} \in Image /\ Sound(j, Names(j) \cup {Tmp("audio")})
    BY <1>0, <1>1, Images
  <2>2. TypeOK' /\ FsInv' /\ OutcomeInv'
    BY <1>4, <1>6, <2>1 DEF OpenTmp
  <2> QED
    BY <1>0, <1>1, <1>6, <2>2 DEF IInv, Inv, ProgressInv, OpenTmp
<1>7. CASE at = 6 /\ OpenTmp(j, "sidecar")
  <2>1. /\ Names(j) \cup {Tmp("sidecar")} \in Image
        /\ Sound(j, Names(j) \cup {Tmp("sidecar")})
        /\ Final("audio") \in Names(j) \cup {Tmp("sidecar")} <=> Final("audio") \in Names(j)
    BY <1>0, <1>1, Images
  <2>2. TypeOK' /\ FsInv' /\ OutcomeInv' /\ Names(j)' = Names(j) \cup {Tmp("sidecar")}
    BY <1>4, <1>7, <2>1 DEF OpenTmp
  <2> QED
    BY <1>0, <1>1, <1>7, <2>1, <2>2 DEF IInv, Inv, ProgressInv, OpenTmp
<1>8. CASE at = 5 /\ Replace(j, "audio")
  <2> DEFINE e == (Names(j) \ {Tmp("audio")}) \cup {Final("audio")}
  <2>1. e \in Image /\ (Final("audio") \in e)
    BY <1>0, <1>1, Images
  <2>2. Sound(j, e)
    BY <1>0, <1>1, <1>8, ReplaceSound DEF ProgressInv
  <2>3. Becomes(j, e) /\ UNCHANGED <<kept, data, safe>>
    BY <1>8 DEF Replace
  <2> HIDE DEF e
  <2>4. TypeOK' /\ FsInv' /\ OutcomeInv' /\ Names(j)' = e
    BY <1>4, <2>1, <2>2, <2>3
  <2> QED
    BY <1>0, <1>1, <1>8, <2>1, <2>3, <2>4 DEF IInv, Inv, ProgressInv
<1>9. CASE at = 9 /\ Replace(j, "sidecar")
  <2> DEFINE e == (Names(j) \ {Tmp("sidecar")}) \cup {Final("sidecar")}
  <2>0. Final("audio") \in Names(j) /\ "sidecar" \in safe[j]
    BY <1>0, <1>1, <1>9 DEF ProgressInv
  <2>1. e \in Image /\ (Final("audio") \in e) /\ (Final("sidecar") \in e)
    BY <1>0, <1>1, <2>0, Images
  <2>2. Sound(j, e)
    BY <1>0, <1>1, <2>0, ReplaceSound
  <2>3. Becomes(j, e) /\ UNCHANGED <<kept, data, safe>>
    BY <1>9 DEF Replace
  <2> HIDE DEF e
  <2>4. TypeOK' /\ FsInv' /\ OutcomeInv' /\ Names(j)' = e
    BY <1>4, <2>1, <2>2, <2>3
  <2> QED
    BY <1>0, <1>1, <1>9, <2>1, <2>3, <2>4 DEF IInv, Inv, ProgressInv
<1>10. CASE at = 3 /\ Write(j, "audio")
  BY <1>0, <1>1, <1>2, <1>3, <1>10
  DEF IInv, Inv, TypeOK, FsInv, ProgressInv, OutcomeInv, Complete, Names, Write
<1>11. CASE at = 7 /\ Write(j, "sidecar")
  BY <1>0, <1>1, <1>2, <1>3, <1>11
  DEF IInv, Inv, TypeOK, FsInv, ProgressInv, OutcomeInv, Complete, Names, Write
<1>12. CASE at = 4 /\ Fsync(j, "audio")
  BY <1>0, <1>1, <1>2, <1>3, <1>12
  DEF IInv, Inv, TypeOK, FsInv, ProgressInv, OutcomeInv, Complete, Names, Fsync
<1>13. CASE at = 8 /\ Fsync(j, "sidecar")
  BY <1>0, <1>1, <1>2, <1>3, <1>13
  DEF IInv, Inv, TypeOK, FsInv, ProgressInv, OutcomeInv, Complete, Names, Fsync
<1>14. CASE at = 10 /\ FsyncDir(j)
  BY <1>0, <1>1, <1>2, <1>3, <1>14, LastImage
  DEF IInv, Inv, TypeOK, FsInv, ProgressInv, OutcomeInv, Complete, Names, FsyncDir
<1> QED
  BY <1>5, <1>6, <1>7, <1>8, <1>9, <1>10, <1>11, <1>12, <1>13, <1>14, CallAt

(* A failed call, or a death in its middle, spoils nothing that is         *)
(* published or synced.                                                    *)
LEMMA SpoilsNothing ==
  ASSUME IInv, writing # NoJob,
         IF at \in DOMAIN WriteProgram /\ WriteProgram[at][1] = "write"
         THEN \E d \in {"none", "part"} : data' = [data EXCEPT ![writing][WriteProgram[at][2]] = d]
         ELSE UNCHANGED data
  PROVE  /\ data' \in [Jobs -> [Files -> {"none", "part", "whole"}]]
         /\ \A k \in Jobs \ {writing} : data'[k] = data[k]
         /\ \A f \in safe[writing] : data'[writing][f] = "whole"
<1>0. TypeOK /\ FsInv /\ ProgressInv /\ writing \in Jobs
  BY DEF IInv, Inv, TypeOK
<1>1. CASE UNCHANGED data
  BY <1>0, <1>1 DEF TypeOK, FsInv
<1>2. ASSUME at \in DOMAIN WriteProgram, WriteProgram[at][1] = "write",
             NEW d \in {"none", "part"},
             data' = [data EXCEPT ![writing][WriteProgram[at][2]] = d]
      PROVE  /\ data' \in [Jobs -> [Files -> {"none", "part", "whole"}]]
             /\ \A k \in Jobs \ {writing} : data'[k] = data[k]
             /\ \A f \in safe[writing] : data'[writing][f] = "whole"
  <2>1. CASE at = 3 /\ WriteProgram[at][2] = "audio"
    BY <1>0, <1>2, <2>1 DEF TypeOK, FsInv, ProgressInv, Files
  <2>2. CASE at = 7 /\ WriteProgram[at][2] = "sidecar"
    BY <1>0, <1>2, <2>2 DEF TypeOK, FsInv, ProgressInv, Files
  <2> QED
    BY <1>2, <2>1, <2>2, WriteAt
<1> QED
  BY <1>1, <1>2

LEMMA InvStep == IInv /\ [Next]_vars => IInv'
<1> SUFFICES ASSUME IInv, [Next]_vars PROVE IInv'
  OBVIOUS
<1>0. TypeOK /\ FsInv /\ ProgressInv /\ OutcomeInv
  BY DEF IInv, Inv
<1>1. Len(WriteProgram) = 10 /\ DOMAIN WriteProgram = 1 .. 10
  BY ProgramCalls
<1>2. ASSUME NEW j \in Jobs, WriteBegins(j) PROVE IInv'
  BY <1>0, <1>1, <1>2, NoJobAssumption
  DEF IInv, Inv, TypeOK, FsInv, ProgressInv, OutcomeInv, Complete, Names, WriteBegins, fsVars, Files
<1>3. CASE WriteCalls
  BY <1>3, CallsKeepInv
<1>4. CASE WriteReturns
  <2>1. /\ writing \in Jobs
        /\ \A f \in Files : Final(f) \in Names(writing)
        /\ kept[writing] = Len(images[writing])
    BY <1>0, <1>1, <1>4 DEF TypeOK, ProgressInv, WriteReturns, Files
  <2>2. TypeOK'
    BY <1>0, <1>1, <1>4 DEF TypeOK, WriteReturns, Leaves, fsVars
  <2>3. FsInv' /\ ProgressInv'
    BY <1>0, <1>4 DEF FsInv, ProgressInv, WriteReturns, Leaves, fsVars
  <2>4. OutcomeInv'
    BY <1>0, <1>4, <2>1 DEF TypeOK, OutcomeInv, Complete, Names, WriteReturns, Leaves, fsVars
  <2> QED
    BY <2>2, <2>3, <2>4 DEF IInv, Inv
<1>5. CASE WriteRaises
  <2>1. /\ writing \in Jobs /\ writing # NoJob
        /\ outcome[writing] = "begun"
        /\ UNCHANGED <<images, kept, safe>>
        /\ outcome' = [outcome EXCEPT ![writing] = "raised"]
        /\ writing' = NoJob
        /\ at' = 0
    BY <1>0, <1>5 DEF TypeOK, ProgressInv, WriteRaises, Leaves
  <2>2. /\ data' \in [Jobs -> [Files -> {"none", "part", "whole"}]]
        /\ \A k \in Jobs \ {writing} : data'[k] = data[k]
        /\ \A f \in safe[writing] : data'[writing][f] = "whole"
    BY <1>5, SpoilsNothing DEF WriteRaises
  <2>3. TypeOK'
    <3>1. /\ NoJob \in Jobs \cup {NoJob}
          /\ 0 \in 0 .. Len(WriteProgram) + 1
          /\ outcome' \in [Jobs -> {"none", "begun", "returned", "raised"}]
      BY <1>0, <1>1, <2>1 DEF TypeOK
    <3> QED
      BY <1>0, <2>1, <2>2, <3>1 DEF TypeOK
  <2>4. FsInv'
    BY <1>0, <2>1, <2>2 DEF FsInv
  <2>5. OutcomeInv'
    BY <1>0, <2>1, <2>2 DEF TypeOK, OutcomeInv, Complete, Names
  <2> QED
    BY <2>1, <2>3, <2>4, <2>5 DEF IInv, Inv, ProgressInv
<1>6. CASE Crash
  <2>1. /\ writing \in Jobs /\ writing # NoJob
        /\ outcome[writing] = "begun"
        /\ UNCHANGED <<images, kept, safe, outcome>>
        /\ writing' = NoJob
        /\ at' = 0
    BY <1>0, <1>6 DEF TypeOK, ProgressInv, Crash
  <2>2. /\ data' \in [Jobs -> [Files -> {"none", "part", "whole"}]]
        /\ \A k \in Jobs \ {writing} : data'[k] = data[k]
        /\ \A f \in safe[writing] : data'[writing][f] = "whole"
    BY <1>6, SpoilsNothing DEF Crash
  <2>3. TypeOK'
    BY <1>0, <1>1, <2>1, <2>2 DEF TypeOK
  <2>4. FsInv'
    BY <1>0, <2>1, <2>2 DEF FsInv
  <2>5. OutcomeInv'
    <3>1. \A k \in Jobs : outcome'[k] = outcome[k] /\ Complete(k)' = Complete(k)
      BY <2>1 DEF Complete, Names
    <3>2. \A k \in Jobs : outcome[k] = "none" => data'[k] = data[k]
      BY <2>1, <2>2
    <3> QED
      BY <1>0, <2>1, <3>1, <3>2 DEF OutcomeInv
  <2> QED
    BY <2>1, <2>3, <2>4, <2>5 DEF IInv, Inv, ProgressInv
<1>7. ASSUME NEW j \in Jobs, Writeback(j) PROVE IInv'
  <2>1. CASE /\ kept[j] < Len(images[j])
             /\ kept' = [kept EXCEPT ![j] = @ + 1]
             /\ UNCHANGED <<images, data, safe, writing, at, outcome>>
    <3>1. \A k \in Jobs : kept[k] = Len(images[k]) => kept'[k] = kept[k]
      BY <1>0, <2>1 DEF TypeOK
    <3>2. TypeOK'
      BY <1>0, <1>1, <2>1 DEF TypeOK
    <3>3. writing # NoJob => writing \in Jobs
      BY <1>0 DEF TypeOK
    <3> QED
      BY <1>0, <2>1, <3>1, <3>2, <3>3 DEF IInv, Inv, FsInv, ProgressInv, OutcomeInv, Complete, Names
  <2>2. ASSUME NEW f \in Files \ safe[j], data[j][f] = "whole",
               safe' = [safe EXCEPT ![j] = @ \cup {f}],
               UNCHANGED <<images, kept, data, writing, at, outcome>>
        PROVE  IInv'
    BY <1>0, <1>1, <2>2 DEF IInv, Inv, TypeOK, FsInv, ProgressInv, OutcomeInv, Complete, Names
  <2> QED
    BY <1>7, <2>1, <2>2 DEF Writeback
<1>8. CASE PowerLoss
  <2>1. \A j \in Jobs : /\ images'[j] \in Seq(Image)
                        /\ Len(images'[j]) = kept[j]
                        /\ \A i \in 1 .. kept[j] : images'[j][i] = images[j][i]
                        /\ kept[j] \in 1 .. Len(images[j])
    BY <1>0, <1>8, CutBack DEF PowerLoss, TypeOK
  <2>2. /\ images' \in [Jobs -> Seq(Image)]
        /\ data' \in [Jobs -> [Files -> {"none", "part", "whole"}]]
        /\ \A j \in Jobs, f \in Files : /\ f \in safe[j] => data'[j][f] = data[j][f]
                                        /\ data[j][f] = "none" => data'[j][f] = "none"
    BY <1>0, <1>8, <2>1 DEF PowerLoss, TypeOK
  <2>3. TypeOK'
    BY <1>0, <1>1, <1>8, <2>1, <2>2 DEF PowerLoss, TypeOK
  <2>4. FsInv'
    BY <1>0, <1>8, <2>1, <2>2 DEF PowerLoss, TypeOK, FsInv
  <2>5. OutcomeInv'
    <3>1. ASSUME NEW j \in Jobs, outcome[j] = "returned"
          PROVE  Last(images'[j]) = Last(images[j]) /\ kept[j] = Len(images'[j])
      BY <1>0, <2>1, <3>1 DEF OutcomeInv, Last
    <3> QED
      BY <1>0, <1>8, <2>2, <3>1 DEF PowerLoss, OutcomeInv, Complete, Names
  <2> QED
    BY <1>8, <2>3, <2>4, <2>5 DEF PowerLoss, IInv, Inv, ProgressInv
<1>9. CASE UNCHANGED vars
  BY <1>0, <1>9 DEF vars, fsVars, IInv, Inv, TypeOK, FsInv, ProgressInv, OutcomeInv, Complete, Names
<1> QED
  BY <1>2, <1>3, <1>4, <1>5, <1>6, <1>7, <1>8, <1>9, StepCases
-----------------------------------------------------------------------------
LEMMA InitIInv == Init => IInv
<1> SUFFICES ASSUME Init PROVE IInv
  OBVIOUS
<1>1. \A j \in Jobs : /\ images[j] = <<{}>>
                      /\ {} \in Image
                      /\ kept[j] = 1
                      /\ safe[j] = {}
                      /\ outcome[j] = "none"
                      /\ \A f \in Files : data[j][f] = "none"
  BY DEF Init, Image
<1>2. <<{}>> \in Seq(Image) /\ Len(<<{}>>) = 1 /\ <<{}>>[1] = {}
  BY DEF Image
<1>3. TypeOK
  BY <1>1, <1>2, ProgramCalls, NoJobAssumption DEF Init, TypeOK
<1>4. FsInv
  BY <1>1, <1>2 DEF FsInv
<1>5. ProgressInv /\ OutcomeInv
  BY <1>1 DEF Init, ProgressInv, OutcomeInv
<1> QED
  BY <1>3, <1>4, <1>5 DEF IInv, Inv

(* The invariant holds from the start and for ever. *)
LEMMA Invariance == Spec => []IInv
BY InitIInv, InvStep, PTL DEF Spec

(* The store's state is well typed, and a call is under way just when a    *)
(* job is being written (artifacts.py: write_artifact).                    *)
THEOREM TypeCorrect == Spec => []TypeOK
<1>1. IInv => TypeOK
  BY DEF IInv
<1> QED
  BY <1>1, Invariance, PTL

(* Whatever has both its final names has its bytes: nothing truncated is   *)
(* ever served, for any number of jobs, crashes and power losses.          *)
THEOREM CompleteIsServedWhole == Spec => []CompleteIsWhole
<1>1. ASSUME IInv PROVE CompleteIsWhole
  BY <1>1, LastImage DEF IInv, Inv, FsInv, CompleteIsWhole, Complete, Names
<1> QED
  BY <1>1, Invariance, PTL

(* A published sidecar never claims success for an audio file that is      *)
(* missing or cut short (artifacts.py: the audio is replaced first).       *)
THEOREM SidecarNeverAlone == Spec => []SidecarHasAudio
<1>1. ASSUME IInv PROVE SidecarHasAudio
  <2>1. "sidecar" \in Files /\ "audio" \in Files
    BY DEF Files
  <2> QED
    BY <1>1, <2>1, LastImage DEF IInv, Inv, FsInv, SidecarHasAudio, Names
<1> QED
  BY <1>1, Invariance, PTL

(* What write_artifact returned for stays served for good: the synced      *)
(* directory holds both names in its last image.                           *)
THEOREM ReturnedIsForGood == Spec => []ReturnedIsKept
<1>1. ASSUME IInv PROVE ReturnedIsKept
  BY <1>1 DEF IInv, Inv, OutcomeInv, ReturnedIsKept
<1> QED
  BY <1>1, Invariance, PTL
-----------------------------------------------------------------------------
(* The store its readers see.  A directory never loses a final name but to *)
(* a loss of power, which brings back an image from before: this is what   *)
(* keeps artifacts from appearing out of a write that is over.             *)
NamesStay == \A j \in Jobs, f \in Files :
  /\ \A i, k \in 1 .. Len(images[j]) :
       i <= k /\ Final(f) \in images[j][i] => Final(f) \in images[j][k]
  /\ outcome[j] = "none" => Final(f) \notin Names(j)
  /\ writing = j /\ at = 1 => Final(f) \notin Names(j)

(* A new image with the final names of the last one is fit to be added.    *)
LEMMA AddedNamesStay ==
  ASSUME TypeOK, NamesStay, NEW j \in Jobs, NEW e \in Image, Becomes(j, e),
         \A f \in Files : Final(f) \in Names(j) => Final(f) \in e,
         outcome[j] # "none", UNCHANGED outcome, writing = j, writing' = j, at' # 1
  PROVE  NamesStay'
<1>1. /\ \A k \in Jobs \ {j} : images'[k] = images[k]
      /\ Len(images'[j]) = Len(images[j]) + 1
      /\ \A i \in 1 .. Len(images[j]) : images'[j][i] = images[j][i]
      /\ images'[j][Len(images[j]) + 1] = e
  BY Changed
<1>2. /\ Len(images[j]) \in Nat
      /\ Len(images[j]) \in 1 .. Len(images[j])
      /\ Names(j) = images[j][Len(images[j])]
  BY LastImage DEF TypeOK, Names
<1>3. ASSUME NEW f \in Files, NEW i \in 1 .. Len(images'[j]), NEW k \in 1 .. Len(images'[j]),
             i <= k, Final(f) \in images'[j][i]
      PROVE  Final(f) \in images'[j][k]
  <2>1. CASE k \in 1 .. Len(images[j])
    <3>1. i \in 1 .. Len(images[j])
      BY <1>1, <1>2, <1>3, <2>1
    <3> QED
      BY <1>1, <1>3, <2>1, <3>1 DEF NamesStay
  <2>2. CASE k = Len(images[j]) + 1
    <3>1. CASE i \in 1 .. Len(images[j])
      <4>1. Final(f) \in images[j][i] /\ i <= Len(images[j])
        BY <1>1, <1>2, <1>3, <3>1
      <4>2. Final(f) \in Names(j)
        BY <1>2, <3>1, <4>1 DEF NamesStay
      <4> QED
        BY <1>1, <2>2, <4>2
    <3>2. CASE i = Len(images[j]) + 1
      BY <1>3, <2>2, <3>2
    <3> QED
      BY <1>1, <1>2, <3>1, <3>2
  <2> QED
    BY <1>1, <1>2, <2>1, <2>2
<1>4. ASSUME NEW k \in Jobs \ {j} PROVE Names(k)' = Names(k)
  BY <1>1, <1>4 DEF Names
<1> QED
  BY <1>1, <1>3, <1>4 DEF NamesStay

(* Every step keeps the names that are there. *)
LEMMA NamesStayStep == IInv /\ NamesStay /\ [Next]_vars => NamesStay'
<1> SUFFICES ASSUME IInv, NamesStay, [Next]_vars PROVE NamesStay'
  OBVIOUS
<1>0. TypeOK /\ FsInv /\ ProgressInv /\ OutcomeInv
  BY DEF IInv, Inv
<1>1. ASSUME UNCHANGED images, UNCHANGED outcome, at' # 1 PROVE NamesStay'
  BY <1>1 DEF NamesStay, Names
<1>2. ASSUME NEW j \in Jobs, WriteBegins(j) PROVE NamesStay'
  <2>1. /\ UNCHANGED images
        /\ outcome[j] = "none"
        /\ \A k \in Jobs \ {j} : outcome'[k] = outcome[k]
        /\ outcome'[j] = "begun"
        /\ writing' = j
    BY <1>0, <1>2 DEF WriteBegins, fsVars, TypeOK
  <2> QED
    BY <2>1 DEF NamesStay, Names
<1>3. CASE WriteCalls
  <2> DEFINE j == writing
  <2>1. /\ j \in Jobs
        /\ j # NoJob
        /\ at \in {1, 2, 3, 4, 5, 6, 7, 8, 9, 10}
        /\ at' = at + 1
        /\ UNCHANGED <<writing, outcome>>
    BY <1>0, <1>3, Positions DEF WriteCalls, TypeOK
  <2>2. outcome[j] # "none" /\ at' # 1
    BY <1>0, <2>1 DEF ProgressInv
  <2>3. CASE at = 1 /\ Mkdir(j)
    <3>1. {Itself} \in Image /\ Becomes(j, {Itself})
      BY <2>3, NameFacts, ImageSets DEF Mkdir
    <3>2. \A f \in Files : Final(f) \notin Names(j)
      BY <2>1, <2>3 DEF NamesStay
    <3> QED
      BY <1>0, <2>1, <2>2, <3>1, <3>2, AddedNamesStay
  <2>4. ASSUME NEW f \in Files, OpenTmp(j, f) PROVE NamesStay'
    <3>1. Becomes(j, Names(j) \cup {Tmp(f)})
      BY <2>4 DEF OpenTmp
    <3>2. Names(j) \cup {Tmp(f)} \in Image
      BY <1>0, <2>1, Images
    <3> QED
      BY <1>0, <2>1, <2>2, <3>1, <3>2, AddedNamesStay
  <2>5. ASSUME NEW f \in Files, Replace(j, f) PROVE NamesStay'
    <3>1. Becomes(j, (Names(j) \ {Tmp(f)}) \cup {Final(f)})
      BY <2>5 DEF Replace
    <3>2. /\ (Names(j) \ {Tmp(f)}) \cup {Final(f)} \in Image
          /\ \A g \in Files : Final(g) \in Names(j) =>
                              Final(g) \in (Names(j) \ {Tmp(f)}) \cup {Final(f)}
      BY <1>0, <2>1, Images
    <3> QED
      BY <1>0, <2>1, <2>2, <3>1, <3>2, AddedNamesStay
  <2>6. ASSUME NEW f \in Files, Write(j, f) \/ Fsync(j, f) \/ FsyncDir(j) PROVE NamesStay'
    BY <1>1, <2>1, <2>2, <2>6 DEF Write, Fsync, FsyncDir
  <2>7. "audio" \in Files /\ "sidecar" \in Files
    BY DEF Files
  <2> QED
    BY <1>0, <1>3, <2>3, <2>4, <2>5, <2>6, <2>7, CallAt
<1>4. CASE WriteReturns \/ WriteRaises
  <2>1. /\ UNCHANGED images
        /\ writing \in Jobs
        /\ \A k \in Jobs \ {writing} : outcome'[k] = outcome[k]
        /\ outcome[writing] # "none"
        /\ outcome'[writing] # "none"
        /\ at' = 0
    BY <1>0, <1>4 DEF WriteReturns, WriteRaises, Leaves, fsVars, TypeOK, ProgressInv
  <2> QED
    BY <2>1 DEF NamesStay, Names
<1>5. CASE Crash
  BY <1>1, <1>5 DEF Crash
<1>6. ASSUME NEW j \in Jobs, Writeback(j) PROVE NamesStay'
  BY <1>6 DEF Writeback, NamesStay, Names
<1>7. CASE PowerLoss
  <2>1. ASSUME NEW j \in Jobs
        PROVE  /\ Len(images'[j]) = kept[j]
               /\ \A i \in 1 .. kept[j] : images'[j][i] = images[j][i]
               /\ kept[j] \in 1 .. Len(images[j])
    BY <1>0, <1>7, CutBack DEF PowerLoss, TypeOK
  <2>2. ASSUME NEW j \in Jobs, NEW f \in Files
        PROVE  Final(f) \in Names(j)' => Final(f) \in Names(j)
    <3>1. /\ Len(images[j]) \in 1 .. Len(images[j])
          /\ Names(j) = images[j][Len(images[j])]
          /\ Len(images[j]) \in Nat
      BY <1>0, LastImage DEF Names, TypeOK
    <3>2. Names(j)' = images[j][kept[j]]
      BY <2>1 DEF Names, Last
    <3>3. kept[j] \in 1 .. Len(images[j]) /\ kept[j] <= Len(images[j])
      BY <2>1, <3>1
    <3> QED
      BY <3>1, <3>2, <3>3 DEF NamesStay
  <2>3. at' = 0 /\ UNCHANGED outcome
    BY <1>7 DEF PowerLoss
  <2>4. ASSUME NEW j \in Jobs, NEW f \in Files,
               NEW i \in 1 .. Len(images'[j]), NEW k \in 1 .. Len(images'[j]),
               i <= k, Final(f) \in images'[j][i]
        PROVE  Final(f) \in images'[j][k]
    <3>1. /\ i \in 1 .. Len(images[j]) /\ k \in 1 .. Len(images[j])
          /\ images'[j][i] = images[j][i] /\ images'[j][k] = images[j][k]
      BY <1>0, <2>1, <2>4 DEF TypeOK
    <3> QED
      BY <2>4, <3>1 DEF NamesStay
  <2> QED
    BY <2>2, <2>3, <2>4 DEF NamesStay
<1>8. CASE UNCHANGED vars
  BY <1>8 DEF vars, fsVars, NamesStay, Names
<1> QED
  BY <1>2, <1>3, <1>4, <1>5, <1>6, <1>7, <1>8, StepCases
LEMMA InitNamesStay == Init => NamesStay
<1> SUFFICES ASSUME Init PROVE NamesStay
  OBVIOUS
<1>1. /\ Len(<<{}>>) = 1 /\ <<{}>>[1] = {} /\ Last(<<{}>>) = {}
      /\ \A j \in Jobs : images[j] = <<{}>>
  BY DEF Init, Last
<1>2. ASSUME NEW j \in Jobs
      PROVE  Names(j) = {} /\ \A i \in 1 .. Len(images[j]) : images[j][i] = {}
  <2>1. images[j] = <<{}>>
    BY <1>1
  <2>2. Names(j) = {}
    BY <1>1, <2>1 DEF Names
  <2>3. \A i \in 1 .. Len(images[j]) : i = 1
    BY <1>1, <2>1
  <2> QED
    BY <1>1, <2>1, <2>2, <2>3
<1> QED
  BY <1>2 DEF NamesStay

(* What is shown of a job, in short: nothing is ever shown in part.        *)
ShownWhole == \A j \in Jobs : Shown(j) = IF Complete(j) THEN "whole" ELSE "nothing"

LEMMA NothingInPart ==
  ASSUME IInv, [Next]_vars PROVE ShownWhole /\ ShownWhole' /\ IInv'
<1>1. IInv'
  BY InvStep
<1>2. CompleteIsWhole
  BY LastImage DEF IInv, Inv, FsInv, CompleteIsWhole, Complete, Names
<1>3. CompleteIsWhole'
  <2>1. ASSUME NEW j \in Jobs
        PROVE  Len(images'[j]) \in 1 .. Len(images'[j]) /\ Names(j)' = images'[j][Len(images'[j])]
    BY <1>1 DEF IInv, TypeOK, Names, Last
  <2> QED
    BY <1>1, <2>1 DEF IInv, Inv, FsInv, CompleteIsWhole, Complete
<1> QED
  BY <1>1, <1>2, <1>3 DEF CompleteIsWhole, ShownWhole, Shown

(* A step that leaves the final names of all directories alone is one its  *)
(* readers do not see.                                                     *)
LEMMA SameNamesSameShown ==
  ASSUME ShownWhole, ShownWhole', \A j \in Jobs : Complete(j)' <=> Complete(j)
  PROVE  UNCHANGED [j \in Jobs |-> Shown(j)]
BY DEF ShownWhole

(* One of the calls makes the artifact complete, all at once; the others   *)
(* show nothing.                                                           *)
LEMMA CallsShow ==
  ASSUME IInv, NamesStay, WriteCalls, [Next]_vars
  PROVE  [Store!Next]_(Store!vars)
<1> DEFINE j == writing
<1>0. /\ TypeOK /\ FsInv /\ ProgressInv /\ OutcomeInv
      /\ "audio" \in Files /\ "sidecar" \in Files
  BY DEF IInv, Inv, Files
<1>1. j \in Jobs /\ j # NoJob /\ UNCHANGED <<writing, outcome>>
  BY <1>0, Positions DEF WriteCalls, TypeOK
<1>2. ShownWhole /\ ShownWhole'
  BY NothingInPart
<1>3. ASSUME NEW e \in Image, Becomes(j, e), \A f \in Files : Final(f) \in Names(j) => Final(f) \in e
      PROVE  /\ \A k \in Jobs \ {j} : Complete(k)' <=> Complete(k)
             /\ Complete(j) => Complete(j)'
             /\ Names(j)' = e
  <2>1. Last(images'[j]) = e /\ \A k \in Jobs \ {j} : images'[k] = images[k]
    BY <1>0, <1>1, <1>3, Changed
  <2>2. Names(j)' = e /\ \A k \in Jobs \ {j} : Names(k)' = Names(k)
    BY <1>1, <2>1 DEF Names
  <2>3. \A k \in Jobs \ {j} : Complete(k)' <=> Complete(k)
    BY <2>2 DEF Complete
  <2>4. Complete(j) => Complete(j)'
    BY <1>1, <1>3, <2>2 DEF Complete
  <2> QED
    BY <2>2, <2>3, <2>4
<1>4. ASSUME \A k \in Jobs : Complete(k)' <=> Complete(k) PROVE [Store!Next]_(Store!vars)
  BY <1>1, <1>2, <1>4, SameNamesSameShown DEF Store!vars
<1>5. ASSUME \A k \in Jobs \ {j} : Complete(k)' <=> Complete(k),
             ~Complete(j), Complete(j)'
      PROVE  Store!Publish
  <2>1. [k \in Jobs |-> Shown(k)]' = [[k \in Jobs |-> Shown(k)] EXCEPT ![j] = "whole"]
    BY <1>1, <1>2, <1>5 DEF ShownWhole
  <2>2. [k \in Jobs |-> Shown(k)][j] = "nothing"
    BY <1>1, <1>2, <1>5 DEF ShownWhole
  <2> QED
    BY <1>1, <2>1, <2>2 DEF Store!Publish
<1>6. CASE UNCHANGED images
  <2>1. \A k \in Jobs : Complete(k)' <=> Complete(k)
    BY <1>6 DEF Complete, Names
  <2> QED
    BY <1>4, <2>1
<1>7. ASSUME NEW e \in Image, Becomes(j, e), \A f \in Files : Final(f) \in Names(j) => Final(f) \in e
      PROVE  [Store!Next]_(Store!vars)
  <2>1. CASE Complete(j) \/ ~Complete(j)'
    <3>1. ASSUME NEW k \in Jobs PROVE Complete(k)' <=> Complete(k)
      <4>1. CASE k = j
        BY <1>1, <1>3, <1>7, <2>1, <4>1
      <4>2. CASE k # j
        BY <1>3, <1>7, <4>2
      <4> QED
        BY <4>1, <4>2
    <3> QED
      BY <1>4, <3>1
  <2>2. CASE ~Complete(j) /\ Complete(j)'
    BY <1>3, <1>5, <1>7, <2>2 DEF Store!Next
  <2> QED
    BY <2>1, <2>2
<1>8. CASE at = 1 /\ Mkdir(j)
  <2>1. {Itself} \in Image /\ Becomes(j, {Itself})
    BY <1>8, NameFacts, ImageSets DEF Mkdir
  <2>2. \A f \in Files : Final(f) \notin Names(j)
    BY <1>1, <1>8 DEF NamesStay
  <2> QED
    BY <1>7, <2>1, <2>2
<1>9. ASSUME NEW f \in Files, OpenTmp(j, f) PROVE [Store!Next]_(Store!vars)
  <2>1. Becomes(j, Names(j) \cup {Tmp(f)})
    BY <1>9 DEF OpenTmp
  <2>2. Names(j) \cup {Tmp(f)} \in Image
    BY <1>0, <1>1, Images
  <2> QED
    BY <1>7, <2>1, <2>2
<1>10. ASSUME NEW f \in Files, Replace(j, f) PROVE [Store!Next]_(Store!vars)
  <2>1. Becomes(j, (Names(j) \ {Tmp(f)}) \cup {Final(f)})
    BY <1>10 DEF Replace
  <2>2. /\ (Names(j) \ {Tmp(f)}) \cup {Final(f)} \in Image
        /\ \A g \in Files : Final(g) \in Names(j) =>
                            Final(g) \in (Names(j) \ {Tmp(f)}) \cup {Final(f)}
    BY <1>0, <1>1, Images
  <2> QED
    BY <1>7, <2>1, <2>2
<1>11. ASSUME NEW f \in Files, Write(j, f) \/ Fsync(j, f) \/ FsyncDir(j)
       PROVE  [Store!Next]_(Store!vars)
  BY <1>6, <1>11 DEF Write, Fsync, FsyncDir
<1> QED
  BY <1>0, <1>8, <1>9, <1>10, <1>11, CallAt

(* A loss of power takes artifacts away, none that was returned, and       *)
(* brings none that was not there.                                         *)
LEMMA PowerLossShows ==
  ASSUME IInv, NamesStay, PowerLoss, [Next]_vars
  PROVE  Store!PowerLoss
<1> DEFINE gone == {j \in Jobs : Complete(j) /\ ~Complete(j)'}
<1>1. ShownWhole /\ ShownWhole' /\ IInv' /\ TypeOK /\ OutcomeInv'
  BY NothingInPart DEF IInv, Inv
<1>2. writing' = NoJob /\ UNCHANGED outcome
  BY DEF PowerLoss
<1>3. ASSUME NEW j \in Jobs, Complete(j)' PROVE Complete(j)
  <2>1. /\ Len(images'[j]) = kept[j]
        /\ \A i \in 1 .. kept[j] : images'[j][i] = images[j][i]
        /\ kept[j] \in 1 .. Len(images[j])
    BY <1>1, CutBack DEF PowerLoss, TypeOK
  <2>2. /\ Len(images[j]) \in 1 .. Len(images[j])
        /\ Len(images[j]) \in Nat
        /\ Names(j) = images[j][Len(images[j])]
    BY <1>1, LastImage DEF Names, TypeOK
  <2>3. Names(j)' = images[j][kept[j]]
    BY <2>1 DEF Names, Last
  <2>4. kept[j] <= Len(images[j])
    BY <2>1, <2>2
  <2> QED
    BY <1>3, <2>1, <2>2, <2>3, <2>4 DEF Complete, NamesStay
<1>4. \A j \in gone : outcome[j] # "returned"
  BY <1>1, <1>2 DEF OutcomeInv
<1>5. [j \in Jobs |-> Shown(j)]' =
        [j \in Jobs |-> IF j \in gone THEN "nothing" ELSE [k \in Jobs |-> Shown(k)][j]]
  BY <1>1, <1>3 DEF ShownWhole
<1>6. gone \in SUBSET {j \in Jobs : outcome[j] # "returned"}
  BY <1>4
<1> HIDE DEF gone
<1> QED
  BY <1>2, <1>5, <1>6 DEF Store!PowerLoss

(* Every step of the protocol is a step of the promised store, or shows    *)
(* its readers nothing.                                                    *)
LEMMA StoreStep == IInv /\ NamesStay /\ [Next]_vars => [Store!Next]_(Store!vars)
<1> SUFFICES ASSUME IInv, NamesStay, [Next]_vars PROVE [Store!Next]_(Store!vars)
  OBVIOUS
<1> DEFINE sh == [j \in Jobs |-> Shown(j)]
<1>0. /\ TypeOK /\ FsInv /\ ProgressInv /\ OutcomeInv
      /\ ShownWhole /\ ShownWhole'
  BY NothingInPart DEF IInv, Inv
<1>1. ASSUME UNCHANGED images PROVE UNCHANGED sh
  <2>1. \A j \in Jobs : Complete(j)' <=> Complete(j)
    BY <1>1 DEF Complete, Names
  <2> QED
    BY <1>0, <2>1, SameNamesSameShown
<1>2. ASSUME NEW j \in Jobs, WriteBegins(j) PROVE Store!Next
  <2>1. UNCHANGED sh
    BY <1>1, <1>2 DEF WriteBegins, fsVars
  <2> QED
    BY <1>2, <2>1 DEF WriteBegins, Store!Begin, Store!Next
<1>3. CASE WriteCalls
  BY <1>3, CallsShow
<1>4. CASE WriteReturns
  <2>1. UNCHANGED sh /\ writing \in Jobs
    BY <1>0, <1>1, <1>4 DEF WriteReturns, fsVars, TypeOK
  <2>2. Complete(writing)
    BY <1>0, <1>4, ProgramCalls DEF WriteReturns, ProgressInv, Complete, Files
  <2>3. sh[writing] = "whole"
    BY <1>0, <2>1, <2>2 DEF ShownWhole
  <2> HIDE DEF sh
  <2>4. Store!Return
    BY <1>4, <2>1, <2>3 DEF WriteReturns, Leaves, Store!Return, sh
  <2> QED
    BY <2>4 DEF Store!Next
<1>5. CASE WriteRaises
  <2>1. UNCHANGED sh
    BY <1>1, <1>5 DEF WriteRaises
  <2> HIDE DEF sh
  <2>2. Store!Raise
    BY <1>5, <2>1 DEF WriteRaises, Leaves, Store!Raise, sh
  <2> QED
    BY <2>2 DEF Store!Next
<1>6. CASE Crash
  <2>1. UNCHANGED sh
    BY <1>1, <1>6 DEF Crash
  <2> HIDE DEF sh
  <2>2. Store!Crash
    BY <1>6, <2>1 DEF Crash, Store!Crash, sh
  <2> QED
    BY <2>2 DEF Store!Next
<1>7. ASSUME NEW j \in Jobs, Writeback(j) PROVE UNCHANGED Store!vars
  BY <1>1, <1>7 DEF Writeback, Store!vars
<1>8. CASE PowerLoss
  BY <1>8, PowerLossShows DEF Store!Next
<1>9. CASE UNCHANGED vars
  BY <1>1, <1>9 DEF vars, fsVars, Store!vars
<1> QED
  BY <1>2, <1>3, <1>4, <1>5, <1>6, <1>7, <1>8, <1>9, StepCases

(* To its readers the write protocol is the atomic store: an artifact      *)
(* appears whole in one instant of its own write, and only a loss of power *)
(* takes it back, never once write_artifact has returned.                  *)
THEOREM StoreIsAtomic == Spec => ImplementsStore
<1>1. Init => Store!Init
  <2>1. ASSUME Init PROVE \A j \in Jobs : ~Complete(j)
    <3>1. Last(<<{}>>) = {} /\ \A j \in Jobs : images[j] = <<{}>>
      BY <2>1 DEF Init, Last
    <3> QED
      BY <3>1 DEF Complete, Names, Files
  <2> QED
    BY <2>1 DEF Init, Store!Init, Shown
<1>2. IInv /\ NamesStay /\ [Next]_vars => NamesStay'
  BY NamesStayStep
<1>3. IInv /\ NamesStay /\ [Next]_vars => [Store!Next]_(Store!vars)
  BY StoreStep
<1> QED
  BY <1>1, <1>2, <1>3, InitNamesStay, Invariance, PTL DEF Spec, ImplementsStore, Store!Spec
=============================================================================
