----------------------------- MODULE FileNames -----------------------------
(***************************************************************************)
(* The name of the directory and of the Go file of a generated package     *)
(* (internal/manifest/file_names.go and portable.go).                      *)
(*                                                                         *)
(* A name is a sequence of tokens: the words that operating systems or the *)
(* Go tools treat specially, the characters that part them, and one        *)
(* ordinary letter, one digit and one character an import path must not    *)
(* have.  Every token counts as one unit of length, so that the limit of   *)
(* 252 bytes is MaxGoFileStem units and the hash, an underscore and 16     *)
(* digits, two: in the code and here the limit leaves room for more than   *)
(* the longest special word.                                               *)
(***************************************************************************)
EXTENDS Integers, Sequences, SequencesExt, FiniteSetsExt

CONSTANT MaxGoFileStem

ASSUME MaxGoFileStemAssumption == MaxGoFileStem \in Nat /\ MaxGoFileStem > 2

(* The words: a Windows device (CON, COM1, ...), a directory the Go tools treat
   specially (vendor, testdata), a GOOS or GOARCH, the suffix test, and the name
   of the generated support package. *)
Devices == {"con"}
SpecialDirectories == {"vendor"}
Platforms == {"linux"}
Digits == {"1"}
IsGoImportPathToken(t) == t # "invalid"

(* splitFirstDot: what comes before the first dot, and the rest with the dot. *)
FirstDot(value) == Min({i \in DOMAIN value : value[i] = "."} \cup {Len(value) + 1})
Stem(value) == SubSeq(value, 1, FirstDot(value) - 1)
Suffix(value) == SubSeq(value, FirstDot(value), Len(value))

(* stem + "_" + suffix *)
Parted(value) == Append(Stem(value), "_") \o Suffix(value)

isReservedWindowsName(value) == Len(Stem(value)) = 1 /\ Stem(value)[1] \in Devices

(* Mutant of makeNonReservedWindowsName: the underscore goes to the end. *)
makeNonReservedWindowsNameAtEnd(value) ==
  IF isReservedWindowsName(value) THEN Append(value, "_") ELSE value

makeNonReservedWindowsName(value) ==
  IF isReservedWindowsName(value) THEN Parted(value) ELSE value

(* NAME~1: only digits, at least one, between a tilde, the last, and the dot. *)
hasWindowsShortNameSuffix(value) ==
  LET stem == Stem(value) IN
  \E tilde \in 1..(Len(stem) - 1) :
    stem[tilde] = "~" /\ \A i \in (tilde + 1)..Len(stem) : stem[i] \in Digits

makeNonWindowsShortName(value) ==
  IF hasWindowsShortNameSuffix(value) THEN Parted(value) ELSE value

isGoSpecialDirectory(value) == Len(value) = 1 /\ value[1] \in SpecialDirectories

(* name_test.go and name_linux.go are not part of an ordinary build. *)
HasSuffix(value, word) == Len(value) > 1 /\ value[Len(value) - 1] = "_" /\ Last(value) = word
isIgnoredOrConditionalGoSource(value) ==
  \/ HasSuffix(value, "test")
  \/ LET stem == Stem(value)
         base == IF HasSuffix(stem, "test") THEN SubSeq(stem, 1, Len(stem) - 2) ELSE stem
     IN \E platform \in Platforms : HasSuffix(base, platform)

neutralizeGoSourceName(value) ==
  IF HasSuffix(value, "test") THEN Append(value, "_") ELSE Parted(value)

(* The loop of sanitizeGoFileComponent: each turn parts one suffix from what makes
   it special.  Two turns end it (TwoTurns in GeneratedPackageProofs). *)
Turn(value) == IF isIgnoredOrConditionalGoSource(value) THEN neutralizeGoSourceName(value) ELSE value
Neutralized(value) == Turn(Turn(value))

truncateASCIIWithHash(value) == SubSeq(value, 1, MaxGoFileStem - 2) \o <<"_", "hash">>

validateGoFileComponent(value) ==
  /\ value # <<>> /\ Len(value) <= MaxGoFileStem
  /\ Head(value) \notin {".", "_", "-"} /\ Last(value) # "."
  /\ \A i \in DOMAIN value :
       IsGoImportPathToken(value[i]) /\ (i > 1 /\ value[i] = "." => value[i - 1] # ".")
  /\ ~isReservedWindowsName(value) /\ ~hasWindowsShortNameSuffix(value)
  /\ ~isGoSpecialDirectory(value) /\ ~isIgnoredOrConditionalGoSource(value)

(* The characters that are kept: valid ones, no dot at the start or after a
   dot; then the leading "._-" and the trailing dots go. *)
Keep(output, token) ==
  IF ~IsGoImportPathToken(token) \/ (token = "." /\ (output = <<>> \/ Last(output) = ".")) THEN output
  ELSE Append(output, token)
Kept(value) ==
  LET kept[i \in 0..Len(value)] == IF i = 0 THEN <<>> ELSE Keep(kept[i - 1], value[i])
  IN kept[Len(value)]
Trimmed(value) ==
  LET first == Min({i \in DOMAIN value : value[i] \notin {".", "_", "-"}} \cup {Len(value) + 1})
      last  == Max({i \in DOMAIN value : value[i] # "."} \cup {0})
  IN SubSeq(value, first, last)

(* The derived name; the empty name, which is never valid, when it is refused. *)
Refused == <<>>
sanitizeGoFileComponent(value) ==
  LET trimmed == Trimmed(Kept(value))
      named   == makeNonWindowsShortName(makeNonReservedWindowsName(trimmed))
      apart   == Neutralized(IF isGoSpecialDirectory(named) THEN Append(named, "_") ELSE named)
      short   == IF Len(apart) > MaxGoFileStem THEN truncateASCIIWithHash(apart) ELSE apart
  IN IF trimmed # <<>> /\ validateGoFileComponent(short) THEN short ELSE Refused

(* A file name the user chose must be valid as it is; else one is derived. *)
EffectiveFileName(chosen, tableName) ==
  IF chosen = <<>> THEN sanitizeGoFileComponent(tableName)
  ELSE IF validateGoFileComponent(chosen) THEN chosen ELSE Refused
=============================================================================
