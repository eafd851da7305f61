---------------------------- MODULE StorageProofs ---------------------------
(***************************************************************************)
(* The settings, the screen, and the card the settings are stored on.      *)
(*                                                                         *)
(* Settings, for any number of saves, pulled cards, resets and pages: what *)
(* the file holds, what its readers get and what the screen shows.         *)
(*                                                                         *)
(* Card, in the second part, for any number of cards pulled, put in and    *)
(* refused: the two mailboxes between sd_mount and mmcsd_detect, and what  *)
(* sd_status is worth.                                                     *)
(***************************************************************************)
EXTENDS Settings, Card, TLAPS

-----------------------------------------------------------------------------
(* The file *)

FileTypes == /\ card \in BOOLEAN /\ good \in BOOLEAN
             /\ {file, before} \subseteq Contents
             /\ session \in {"none", "menu", "writing"}
             /\ {config, shown, meant} \subseteq Pairs
             /\ packet \in Values
             /\ {unsaved, blind, spoilt} \subseteq BOOLEAN
             /\ saves \in 0 .. MaxSaves /\ mishaps \in 0 .. MaxMishaps
             /\ asked \in 0 .. MaxAsked

(* A session that has read the file knows what the user meant; an empty    *)
(* file that nobody is writing and no failed save has left is the first.   *)
Known ==
    /\ (session # "none" \/ ~unsaved) /\ ~blind /\ ~spoilt => config = meant
    /\ file = <<>> /\ session # "writing" /\ ~unsaved /\ ~spoilt
       => meant = Blank /\ config = Blank
    /\ good => session = "writing" /\ file = <<>>

FileInv == FileTypes /\ Known /\ KeepsSettings

(* A reader that has opened a file with lines finds a file in its sector,  *)
(* one that was meant while it was open: nobody but the writer leaves the  *)
(* file empty under it.                                                    *)
Handles == {"closed", "open", "stale", "empty"}
Holds == {"open", "stale"}
ReaderInv ==
    /\ handle \in [Readers -> Handles]
    /\ since \in [Readers -> SUBSET Pairs]
    /\ \A r \in Readers : handle[r] \in Holds =>
          /\ file = <<>> => good
          /\ OnCard \in since[r]

LEMMA PairFacts == /\ Blank \in Pairs
               /\ \A c \in Pairs : c # <<>> /\ c[MAC] \in Values
BY SettingsAssumption DEF Pairs, Values, Blank, MAC

LEMMA InitFileInv == Init => FileInv
<1> SUFFICES ASSUME Init PROVE FileInv
    OBVIOUS
<1>1. FileTypes
      <2>1. packet \in Values /\ saves \in 0 .. MaxSaves
            /\ mishaps \in 0 .. MaxMishaps /\ asked \in 0 .. MaxAsked
            BY SettingsAssumption DEF Init, Values
      <2>2. {config, shown, meant} \subseteq Pairs
            BY PairFacts DEF Init
      <2>3. {file, before} \subseteq Contents
            BY PairFacts DEF Init, Contents
      <2>4. card \in BOOLEAN /\ good \in BOOLEAN /\ session = "none"
            /\ {unsaved, blind, spoilt} \subseteq BOOLEAN
            BY Zenon DEF Init
      <2>5. QED
            BY <2>1, <2>2, <2>3, <2>4 DEF FileTypes
<1>2. Known /\ KeepsSettings
      BY DEF Init, Known, KeepsSettings
<1>3. QED
      BY <1>1, <1>2 DEF FileInv

(* What a reader gets is a pair of values *)
LEMMA ReadIsPair ==
    ASSUME FileTypes, NEW old \in Pairs
    PROVE  Read(old) \in Pairs
BY DEF FileTypes, Contents, Read

LEMMA BeginFileInv ==
    ASSUME FileInv, Begin
    PROVE  FileInv'
<1>1. config' \in Pairs
      BY ReadIsPair DEF FileInv, FileTypes, Begin
<1>2. FileTypes'
      BY <1>1 DEF FileInv, FileTypes, Begin, written, readers, bounds
<1>3. Known'
      <2>1. card /\ file # <<>> => config' = file
            BY DEF Begin, Read
      <2>2. ~(card /\ file # <<>>) => config' = config
            BY DEF Begin, Read
      <2>3. QED
            BY <2>1, <2>2 DEF FileInv, Known, KeepsSettings, Begin, written
<1>4. KeepsSettings'
      BY DEF FileInv, KeepsSettings, Begin, written
<1>5. QED
      BY <1>2, <1>3, <1>4 DEF FileInv

LEMMA SaveFileInv ==
    ASSUME FileInv, NEW f \in Fields, Save(f)
    PROVE  FileInv'
<1>1. saves' \in 0 .. MaxSaves /\ saves' \in Values
      BY SettingsAssumption DEF FileInv, FileTypes, Save, Values
<1>2. \A c \in Pairs : [c EXCEPT ![f] = saves'] \in Pairs
      BY <1>1 DEF Fields, Pairs
<1>3. config' \in Pairs /\ meant' \in Pairs
      BY <1>2 DEF FileInv, FileTypes, Save
<1>4. FileTypes'
      <2>1. {file', before'} \subseteq Contents /\ session' \in {"menu", "writing"}
            BY DEF FileInv, FileTypes, Save, Contents, written
      <2>2. good' \in BOOLEAN /\ unsaved' \in BOOLEAN
            BY Zenon DEF FileInv, FileTypes, Save, written
      <2>3. QED
            BY <1>1, <1>3, <2>1, <2>2 DEF FileInv, FileTypes, Save, readers
<1>5. Known'
      <2>1. config = meant => config' = meant'
            BY DEF Save
      <2>2. QED
            BY <2>1 DEF FileInv, Known, KeepsSettings, Save, written
<1>6. KeepsSettings'
      BY DEF FileInv, KeepsSettings, Save
<1>7. QED
      BY <1>4, <1>5, <1>6 DEF FileInv

LEMMA CloseFileInv ==
    ASSUME FileInv, Close
    PROVE  FileInv'
<1>1. FileTypes'
      BY DEF FileInv, FileTypes, Close, Contents, bounds
<1>2. Known' /\ KeepsSettings'
      BY PairFacts DEF FileInv, FileTypes, Known, KeepsSettings, Close
<1>3. QED
      BY <1>1, <1>2 DEF FileInv

LEMMA MishapFileInv ==
    ASSUME FileInv, CardOut \/ Reset
    PROVE  FileInv'
<1>1. file' \in Contents /\ good' = FALSE /\ before' = before
      BY DEF CardOut, Reset, Cut, FileInv, FileTypes
<1>2. mishaps' \in 0 .. MaxMishaps /\ saves' = saves /\ asked' = asked
      BY SettingsAssumption DEF CardOut, Reset, Mishap, FileInv, FileTypes
<1>3. CASE CardOut
      <2>1. FileTypes'
            BY <1>1, <1>2, <1>3 DEF CardOut, FileInv, FileTypes
      <2>2. ~unsaved' => ~good /\ file' = file
            BY <1>3 DEF CardOut, Cut
      <2>3. Known'
            BY <1>1, <1>3, <2>2 DEF CardOut, FileInv, Known
      <2>4. KeepsSettings'
            BY <1>3, <2>2 DEF CardOut, FileInv, FileTypes, KeepsSettings
      <2>5. QED
            BY <2>1, <2>3, <2>4 DEF FileInv
<1>4. CASE Reset
      <2>1. meant' \in Pairs
            BY <1>1, <1>4, PairFacts DEF Reset, Contents
      <2>2. FileTypes'
            <3>1. packet' \in Values
                  BY <1>4, SettingsAssumption DEF Reset, Values
            <3>2. {config', shown', meant'} \subseteq Pairs
                  BY <1>4, <2>1, PairFacts DEF Reset
            <3>3. QED
                  BY <1>1, <1>2, <1>4, <3>1, <3>2 DEF Reset, FileInv, FileTypes
      <2>3. Known' /\ KeepsSettings'
            BY <1>1, <1>4 DEF Reset, Known, KeepsSettings
      <2>4. QED
            BY <2>2, <2>3 DEF FileInv
<1>5. QED
      BY <1>3, <1>4

(* What read returns is a pair, line by line what was meant while the file *)
(* was open or what the caller's copy held.                                *)
LEMMA GotLines ==
    ASSUME ReaderInv, NEW r \in Readers, handle[r] # "closed",
           NEW copy \in Pairs, NEW got \in Got(r, copy)
    PROVE  /\ got \in Pairs
           /\ handle[r] = "open" => got \in since[r]
           /\ \A f \in Fields : got[f] \in {copy[f]} \cup {s[f] : s \in since[r]}
<1>1. CASE handle[r] = "empty"
      BY <1>1 DEF Got
<1>2. CASE handle[r] \in Holds
      <2>1. OnCard \in since[r] /\ OnCard \in Pairs
            BY <1>2 DEF ReaderInv
      <2>2. CASE got = OnCard
            BY <2>1, <2>2
      <2>3. CASE got = copy
            BY <1>2, <2>1, <2>3 DEF Got, Holds
      <2>4. CASE handle[r] = "stale" /\ got = [OnCard EXCEPT ![MAC] = copy[MAC]]
            <3>1. got \in Pairs /\ got[1] = OnCard[1] /\ got[2] = copy[2]
                  BY <2>1, <2>4 DEF MAC, Pairs
            <3>2. QED
                  BY <2>1, <2>4, <3>1 DEF Fields
      <2>5. QED
            BY <1>2, <2>2, <2>3, <2>4 DEF Got, Holds
<1>3. QED
      BY <1>1, <1>2 DEF ReaderInv, Handles, Holds

LEMMA ReaderFileInv ==
    ASSUME FileInv, ReaderInv,
           \/ WolOpen \/ WolRead \/ Screen \/ ScreenRead \/ Key \/ Cloud
           \/ Leave \/ CardIn
    PROVE  FileInv'
<1>1. packet' \in Values /\ shown' \in Pairs
      <2>1. CASE WolRead
            <3>1. handle["wol"] # "closed" /\ "wol" \in Readers
                  BY <2>1 DEF WolRead, Shut, Readers
            <3>2. PICK got \in Got("wol", Blank) : packet' = got[MAC]
                  BY <2>1, Zenon DEF WolRead
            <3>3. got \in Pairs
                  BY <3>1, <3>2, PairFacts, GotLines
            <3>4. QED
                  BY <2>1, <3>2, <3>3, PairFacts DEF WolRead, FileInv, FileTypes
      <2>2. CASE ScreenRead
            <3>1. handle["ui"] # "closed" /\ "ui" \in Readers
                  BY <2>2 DEF ScreenRead, Shut, Readers
            <3>2. shown \in Pairs /\ shown' \in Got("ui", shown)
                  BY <2>2 DEF ScreenRead, FileInv, FileTypes
            <3>3. shown' \in Pairs
                  BY <3>1, <3>2, GotLines
            <3>4. QED
                  BY <2>2, <3>3 DEF ScreenRead, FileInv, FileTypes
      <2>3. CASE WolOpen \/ Screen \/ Key \/ Cloud \/ Leave \/ CardIn
            BY <2>3
            DEF WolOpen, Screen, Key, Cloud, Leave, CardIn, Rest, readers, FileInv,
                FileTypes
      <2>4. QED
            BY <2>1, <2>2, <2>3
<1>2. asked' \in 0 .. MaxAsked
      BY SettingsAssumption
      DEF WolOpen, WolRead, Screen, ScreenRead, Key, Cloud, Leave, CardIn, Rest,
          bounds, FileInv, FileTypes
<1>3. /\ UNCHANGED <<written, config, history, saves, mishaps>>
      /\ session' = session \/ (session = "menu" /\ session' = "none")
      /\ card' \in {card, TRUE}
      BY DEF WolOpen, WolRead, Screen, ScreenRead, Key, Cloud, Leave, CardIn, Rest,
             bounds
<1>4. FileTypes'
      BY <1>1, <1>2, <1>3 DEF FileInv, FileTypes, written, history
<1>5. Known' /\ KeepsSettings'
      BY <1>3 DEF FileInv, Known, KeepsSettings, written, history
<1>6. QED
      BY <1>4, <1>5 DEF FileInv

LEMMA NextFileInv == FileInv /\ ReaderInv /\ [Next]_vars => FileInv'
<1> SUFFICES ASSUME FileInv, ReaderInv, [Next]_vars PROVE FileInv'
    OBVIOUS
<1>1. CASE UNCHANGED vars
      BY <1>1
      DEF vars, readers, written, history, bounds, FileInv, FileTypes, Known,
          KeepsSettings
<1>2. CASE Next
      BY <1>2, BeginFileInv, SaveFileInv, CloseFileInv, MishapFileInv,
         ReaderFileInv
      DEF Next
<1>3. QED
      BY <1>1, <1>2

LEMMA SinceGrows ==
    ASSUME FileInv', ReaderInv, Follow, NEW r \in Readers, handle'[r] \in Holds
    PROVE  /\ since'[r] \subseteq Pairs
           /\ since[r] \subseteq since'[r]
           /\ unsaved' \/ spoilt' => since'[r] = Pairs
           /\ meant' \in since'[r]
<1>1. meant' \in Pairs /\ since[r] \subseteq Pairs
      BY DEF FileInv, FileTypes, ReaderInv
<1>2. since'[r] = IF unsaved' \/ spoilt' THEN Pairs ELSE since[r] \cup {meant'}
      BY DEF Follow, Holds
<1>3. QED
      BY <1>1, <1>2

LEMMA SinceTypes ==
    ASSUME FileInv', ReaderInv, Follow
    PROVE  since' \in [Readers -> SUBSET Pairs]
<1>1. meant' \in Pairs
      BY DEF FileInv, FileTypes
<1>2. QED
      BY <1>1 DEF ReaderInv, Follow

(* It is enough to look at the readers that hold a file after the step. *)
LEMMA StillHeld ==
    ASSUME FileInv', ReaderInv, Follow,
           handle' \in [Readers -> Handles],
           \A r \in Readers : handle'[r] \in Holds =>
              /\ handle[r] \in Holds
              /\ OnCard' = OnCard
              /\ file' = <<>> => good'
    PROVE  ReaderInv'
<1>1. ASSUME NEW r \in Readers, handle'[r] \in Holds
      PROVE  (file' = <<>> => good') /\ OnCard' \in since'[r]
      <2>1. OnCard' \in since[r] /\ (file' = <<>> => good')
            BY <1>1 DEF ReaderInv
      <2>2. since[r] \subseteq since'[r]
            BY <1>1, SinceGrows
      <2>3. QED
            BY <2>1, <2>2
<1>2. QED
      BY <1>1, SinceTypes DEF ReaderInv

LEMMA OpenReaderInv ==
    ASSUME FileInv, FileInv', ReaderInv, Follow,
           NEW q \in Readers, Open(q),
           UNCHANGED <<file, before, good, meant, unsaved, spoilt>>
    PROVE  ReaderInv'
<1>1. handle' = [handle EXCEPT ![q] = IF file = <<>> THEN "empty" ELSE "open"]
      BY DEF Open
<1>2. handle' \in [Readers -> Handles]
      BY <1>1 DEF ReaderInv, Handles
<1>3. OnCard' = OnCard
      BY DEF OnCard
<1>4. ASSUME NEW r \in Readers, handle'[r] \in Holds
      PROVE  (file' = <<>> => good') /\ OnCard' \in since'[r]
      <2>1. CASE r = q
            <3>1. file # <<>> /\ file \in Pairs /\ OnCard' = file
                  BY <1>1, <1>3, <1>4, <2>1
                  DEF ReaderInv, Holds, OnCard, FileInv, FileTypes, Contents
            <3>2. ~unsaved /\ ~spoilt => file = meant'
                  BY <3>1 DEF FileInv, KeepsSettings
            <3>3. QED
                  BY <1>4, <3>1, <3>2, SinceGrows
      <2>2. CASE r # q
            <3>1. handle[r] \in Holds
                  BY <1>1, <1>4, <2>2 DEF ReaderInv
            <3>2. OnCard \in since[r] /\ (file = <<>> => good)
                  BY <3>1 DEF ReaderInv
            <3>3. QED
                  BY <1>3, <1>4, <3>2, SinceGrows
      <2>3. QED
            BY <2>1, <2>2
<1>5. QED
      BY <1>2, <1>4, SinceTypes DEF ReaderInv

LEMMA SaveReaderInv ==
    ASSUME FileInv, FileInv', ReaderInv, Follow, NEW f \in Fields, Save(f)
    PROVE  ReaderInv'
<1>1. handle' = handle /\ session = "menu"
      BY DEF Save, readers
<1>2. ~good
      BY <1>1 DEF FileInv, Known
<1>3. \/ UNCHANGED <<file, before, good>>
      \/ file' = <<>> /\ before' = file /\ good' = TRUE
      BY Zenon DEF Save, written
<1>4. ASSUME NEW r \in Readers, handle'[r] \in Holds
      PROVE  handle[r] \in Holds /\ OnCard' = OnCard /\ (file' = <<>> => good')
      <2>1. handle[r] \in Holds /\ file # <<>>
            BY <1>1, <1>2, <1>4 DEF ReaderInv
      <2>2. QED
            BY <1>3, <2>1 DEF OnCard
<1>5. handle' \in [Readers -> Handles]
      BY <1>1 DEF ReaderInv
<1>6. QED
      BY <1>4, <1>5, StillHeld

LEMMA CloseReaderInv ==
    ASSUME FileInv, FileInv', ReaderInv, Follow, Close
    PROVE  ReaderInv'
<1>1. handle' = [r \in Readers |->
                   IF good /\ handle[r] = "open" THEN "stale" ELSE handle[r]]
      BY DEF Close
<1>2. handle' \in [Readers -> Handles]
      BY <1>1 DEF ReaderInv, Handles
<1>3. \A r \in Readers : handle'[r] \in Holds => handle[r] \in Holds
      BY <1>1 DEF Holds
<1>4. CASE good
      <2>1. file' = config /\ file' # <<>> /\ OnCard' = config
            BY <1>4, PairFacts DEF Close, OnCard, FileInv, FileTypes
      <2>2. ASSUME NEW r \in Readers, handle'[r] \in Holds
            PROVE  config \in since'[r]
            <3>1. CASE spoilt'
                  BY <2>2, <3>1, SinceGrows DEF FileInv, FileTypes
            <3>2. CASE ~spoilt'
                  <4>1. ~spoilt /\ ~blind /\ session = "writing" /\ meant' = meant
                        BY <1>4, <3>2 DEF Close
                  <4>2. config = meant'
                        BY <4>1 DEF FileInv, Known
                  <4>3. QED
                        BY <2>2, <4>2, SinceGrows
            <3>3. QED
                  BY <3>1, <3>2
      <2>3. QED
            BY <1>2, <2>1, <2>2, SinceTypes DEF ReaderInv
<1>5. CASE ~good
      <2>1. UNCHANGED <<file, before>> /\ good' = FALSE
            BY <1>5 DEF Close
      <2>2. ASSUME NEW r \in Readers, handle'[r] \in Holds
            PROVE  handle[r] \in Holds /\ OnCard' = OnCard /\ (file' = <<>> => good')
            BY <1>3, <1>5, <2>1, <2>2 DEF ReaderInv, OnCard
      <2>3. QED
            BY <1>2, <2>2, StillHeld
<1>6. QED
      BY <1>4, <1>5

LEMMA NextReaderInv ==
    ASSUME FileInv, FileInv', ReaderInv, [Next]_vars
    PROVE  ReaderInv'
<1>1. CASE UNCHANGED vars
      BY <1>1 DEF vars, readers, written, ReaderInv, OnCard
<1>2. CASE Next
      <2>1. Follow
            BY <1>2 DEF Next
      <2>2. CASE WolOpen
            BY <2>1, <2>2, OpenReaderInv DEF WolOpen, written, history, Readers
      <2>3. CASE Screen /\ Open("ui")
            BY <2>1, <2>3, OpenReaderInv DEF Screen, written, history, Readers
      <2>4. ASSUME NEW f \in Fields, Save(f) PROVE ReaderInv'
            BY <2>1, <2>4, SaveReaderInv
      <2>5. CASE Close
            BY <2>1, <2>5, CloseReaderInv
      <2>6. CASE CardOut \/ Reset
            <3>1. \A r \in Readers : handle'[r] \in {"closed", "empty"}
                  BY <2>6 DEF CardOut, Reset
            <3>2. handle' \in [Readers -> Handles]
                  BY <2>6 DEF CardOut, Reset, Handles
            <3>3. \A r \in Readers : ~(handle'[r] \in Holds)
                  BY <3>1 DEF Holds
            <3>4. QED
                  BY <2>1, <3>2, <3>3, SinceTypes DEF ReaderInv
      <2>7. CASE \/ Begin \/ Leave \/ WolRead \/ ScreenRead \/ Key \/ Cloud \/ CardIn
                 \/ (Screen /\ UNCHANGED handle)
            <3>1. UNCHANGED <<file, before, good>>
                  BY <2>7
                  DEF Begin, Leave, WolRead, ScreenRead, Key, Cloud, CardIn, Screen,
                      Rest, written
            <3>2. \/ handle' = handle
                  \/ \E q : handle' = [handle EXCEPT ![q] = "closed"]
                  BY <2>7, Zenon
                  DEF Begin, Leave, WolRead, ScreenRead, Key, Cloud, CardIn, Rest,
                      Shut, readers
            <3>3. \A r \in Readers : handle'[r] \in Holds => handle'[r] = handle[r]
                  BY <3>2 DEF ReaderInv, Holds
            <3>4. handle' \in [Readers -> Handles]
                  BY <3>2 DEF ReaderInv, Handles
            <3>5. ASSUME NEW r \in Readers, handle'[r] \in Holds
                  PROVE  handle[r] \in Holds /\ OnCard' = OnCard
                         /\ (file' = <<>> => good')
                  BY <3>1, <3>3, <3>5 DEF ReaderInv, OnCard
            <3>6. QED
                  BY <2>1, <3>4, <3>5, StillHeld
      <2>8. Screen => Open("ui") \/ UNCHANGED handle
            BY Zenon DEF Screen
      <2>9. QED
            BY <1>2, <2>2, <2>3, <2>4, <2>5, <2>6, <2>7, <2>8 DEF Next
<1>3. QED
      BY <1>1, <1>2

(* The inductive invariant about the file, the sessions over it and those  *)
(* who read it meanwhile (file_config.c:16-39, 49, device_config.c:116,    *)
(* 195).                                                                   *)
THEOREM FileIsKept == Spec => [](FileInv /\ ReaderInv)
<1>1. Init => ReaderInv
      BY DEF Init, ReaderInv, Handles, Holds
<1>2. FileInv /\ ReaderInv /\ [Next]_vars => FileInv' /\ ReaderInv'
      BY NextFileInv, NextReaderInv
<1>3. QED
      BY <1>1, <1>2, InitFileInv, PTL DEF Spec

(* The file holds what the user meant, unless a save failed or was made by *)
(* a session that could not read (device_config.c:116, file_config.c:49).  *)
THEOREM SettingsAreKept == Spec => []KeepsSettings
<1>1. FileInv => KeepsSettings
      BY DEF FileInv
<1>2. QED
      BY <1>1, FileIsKept, PTL

(* A packet goes to a computer that was meant while the file was open, or  *)
(* to nobody if the file was empty, gone or longer than it had been, and a *)
(* page shows, setting for setting, what was meant while it was read or    *)
(* what it showed before (file_config.c:16-39, wol.c:26, ui.c:99, 111).    *)
THEOREM ReadersAreTold == Spec => ReadersTrue
<1> DEFINE Packet == packet' \in {packet} \cup {s[MAC] : s \in since["wol"]}
                         \cup (IF handle["wol"] = "open" THEN {} ELSE {0})
           Page == \A f \in Fields :
                      shown'[f] \in {shown[f]} \cup {s[f] : s \in since["ui"]}
           Told == (Packet /\ Page) \/ Reset
<1>1. FileInv /\ ReaderInv /\ [Next]_vars => [Told]_vars
      <2> SUFFICES ASSUME FileInv, ReaderInv, Next PROVE Told
          OBVIOUS
      <2>1. CASE WolRead
            <3>1. handle["wol"] # "closed" /\ "wol" \in Readers /\ shown' = shown
                  BY <2>1 DEF WolRead, Shut, Readers
            <3>2. PICK got \in Got("wol", Blank) : packet' = got[MAC]
                  BY <2>1, Zenon DEF WolRead
            <3>3. /\ handle["wol"] = "open" => got \in since["wol"]
                  /\ \A f \in Fields :
                        got[f] \in {Blank[f]} \cup {s[f] : s \in since["wol"]}
                  BY <3>1, <3>2, PairFacts, GotLines
            <3>4. Blank[MAC] = 0 /\ MAC \in Fields
                  BY DEF Blank, MAC, Fields
            <3>5. Packet
                  BY <3>2, <3>3, <3>4
            <3>6. Page
                  BY <3>1
            <3>7. QED
                  BY <3>5, <3>6
      <2>2. CASE ScreenRead
            <3>1. handle["ui"] # "closed" /\ "ui" \in Readers /\ packet' = packet
                  BY <2>2 DEF ScreenRead, Shut, Readers
            <3>2. shown \in Pairs /\ shown' \in Got("ui", shown)
                  BY <2>2 DEF ScreenRead, FileInv, FileTypes
            <3>3. Page
                  BY <3>1, <3>2, GotLines
            <3>4. Packet
                  BY <3>1
            <3>5. QED
                  BY <3>3, <3>4
      <2>3. CASE Reset
            BY <2>3
      <2>4. CASE UNCHANGED <<packet, shown>>
            BY <2>4
      <2>5. QED
            BY <2>1, <2>2, <2>3, <2>4
            DEF Next, Begin, Leave, Save, Close, WolOpen, Screen, Key, Cloud, CardOut,
                CardIn, Rest, readers
<1>2. QED
      BY <1>1, FileIsKept, PTL DEF Spec, ReadersTrue

-----------------------------------------------------------------------------
(* The screen *)

(* A page the thread has not drawn yet is marked as changed. *)
ScreenInv == UiTypeOK /\ ScreenTrue
             /\ (page_index # page_index_bak => page_changed_flag)

LEMMA PagesMeet ==
    /\ 0 \in Pages /\ CloudPages \subseteq Pages
    /\ \A m \in Pages \cup {NextPage} : page_index_bak \in Pages => Turn(m) \in Pages
BY UiAssumption, SettingsAssumption DEF Pages, Beyond, NextPage, Turn

LEMMA SendTypes ==
    ASSUME UiTypeOK, NEW m \in Pages \cup {NextPage}, Send(m)
    PROVE  page_mail' \in Seq(Pages \cup {NextPage}) /\ Len(page_mail') <= PageMails
BY UiAssumption DEF UiTypeOK, Send

LEMMA DrawScreenInv ==
    ASSUME ScreenInv, NEW page \in Pages, NEW changed \in BOOLEAN,
           page # page_index_bak => changed,
           page_index' = page, Draw(page, changed)
    PROVE  /\ page_index_bak' \in Pages /\ page_changed_flag' \in BOOLEAN
           /\ screen' \in Pages \cup {NoPage}
           /\ ScreenTrue'
           /\ page_index' # page_index_bak' => page_changed_flag'
<1> DEFINE unread == changed /\ page \in FromFile
<1>1. /\ page_index_bak' = IF unread THEN page_index_bak ELSE page
      /\ screen' = IF page = 0 \/ (changed /\ ~unread) THEN page ELSE screen
      /\ page_changed_flag' = (changed /\ (page = 0 \/ unread))
      BY DEF Draw
<1>2. unread => page # 0
      BY DEF FromFile
<1> HIDE DEF unread
<1>3. page_index_bak' \in Pages /\ screen' \in Pages \cup {NoPage}
      BY <1>1 DEF ScreenInv, UiTypeOK
<1>4. page_changed_flag' \in BOOLEAN
      BY <1>1, Zenon
<1>5. page_index' # page_index_bak' => page_changed_flag'
      BY <1>1 DEF unread
<1>6. ScreenTrue'
      BY <1>1, <1>2 DEF ScreenInv, ScreenTrue
<1>7. QED
      BY <1>3, <1>4, <1>5, <1>6

LEMMA ScreenScreenInv ==
    ASSUME ScreenInv, Screen \/ ScreenRead
    PROVE  ScreenInv'
<1> USE DEF ScreenInv, UiTypeOK
<1>2. key_value_bak' \in BOOLEAN
      BY DEF Screen, ScreenRead, Receive, Idle, DrawRead
<1>3. CASE Receive
      <2>1. page_mail # <<>> /\ page_mail' = Tail(page_mail)
            BY <1>3 DEF Receive
      <2>2. /\ page_mail' \in Seq(Pages \cup {NextPage}) /\ Len(page_mail') <= PageMails
            /\ Head(page_mail) \in Pages \cup {NextPage}
            BY <2>1, UiAssumption
      <2>3. page_index' \in Pages
            BY <1>3, <2>2, PagesMeet DEF Receive
      <2>4. /\ page_index_bak' \in Pages /\ page_changed_flag' \in BOOLEAN
            /\ screen' \in Pages \cup {NoPage}
            /\ ScreenTrue'
            /\ page_index' # page_index_bak' => page_changed_flag'
            BY <1>3, <2>3, DrawScreenInv DEF Receive
      <2>5. QED
            BY <1>2, <2>2, <2>3, <2>4
<1>4. CASE Idle
      <2>1. /\ page_index_bak' \in Pages /\ page_changed_flag' \in BOOLEAN
            /\ screen' \in Pages \cup {NoPage}
            /\ ScreenTrue'
            /\ page_index' # page_index_bak' => page_changed_flag'
            BY <1>4, DrawScreenInv DEF Idle
      <2>2. QED
            BY <1>2, <1>4, <2>1 DEF Idle
<1>5. CASE DrawRead
      BY <1>2, <1>5 DEF DrawRead, ScreenTrue
<1>6. QED
      BY <1>3, <1>4, <1>5 DEF Screen, ScreenRead

LEMMA NextScreenInv == ScreenInv /\ [Next]_vars => ScreenInv'
<1> SUFFICES ASSUME ScreenInv, [Next]_vars PROVE ScreenInv'
    OBVIOUS
<1>1. CASE Screen \/ ScreenRead
      BY <1>1, ScreenScreenInv
<1>2. CASE Key
      <2>1. page_mail' \in Seq(Pages \cup {NextPage}) /\ Len(page_mail') <= PageMails
            BY <1>2, SendTypes DEF Key, Sample, ScreenInv, UiTypeOK
      <2>2. QED
            BY <1>2, <2>1
            DEF Key, Sample, thread, ScreenInv, UiTypeOK, ScreenTrue
<1>4. CASE Cloud
      <2>1. page_mail' \in Seq(Pages \cup {NextPage}) /\ Len(page_mail') <= PageMails
            BY <1>4, SendTypes, PagesMeet DEF Cloud, ShowPage, ScreenInv
      <2>2. QED
            BY <1>4, <2>1
            DEF Cloud, ShowPage, thread, ScreenInv, UiTypeOK, ScreenTrue
<1>5. CASE Reset
      <2>1. page_mail' \in Seq(Pages \cup {NextPage}) /\ Len(page_mail') <= PageMails
            BY <1>5, UiAssumption DEF Reset
      <2>2. /\ page_index' \in Pages /\ page_index_bak' \in Pages
            /\ screen' \in Pages \cup {NoPage} /\ screen' = NoPage
            BY <1>5, PagesMeet DEF Reset
      <2>3. page_changed_flag' \in BOOLEAN /\ key_value_bak' \in BOOLEAN
            BY <1>5, Zenon DEF Reset, ScreenInv, UiTypeOK
      <2>4. page_index' = page_index_bak'
            BY <1>5 DEF Reset
      <2>5. QED
            BY <2>1, <2>2, <2>3, <2>4 DEF ScreenInv, UiTypeOK, ScreenTrue
<1>6. CASE UNCHANGED ui
      BY <1>6 DEF ui, thread, ScreenInv, UiTypeOK, ScreenTrue
<1>7. QED
      BY <1>1, <1>2, <1>4, <1>5, <1>6
      DEF Next, Begin, Leave, Save, Close, WolOpen, WolRead, CardOut, CardIn, vars

(* The thread counts the presses of the key from the page that is on the   *)
(* screen, also after a page it could not read (ui.c:99, 126), and every   *)
(* variable keeps its type.                                                *)
THEOREM ScreenIsTrue == Spec => [](TypeOK /\ ScreenTrue)
<1>1. ASSUME Init PROVE ScreenInv
      <2>1. page_mail \in Seq(Pages \cup {NextPage}) /\ Len(page_mail) <= PageMails
            BY <1>1, UiAssumption DEF Init, UiInit
      <2>2. /\ page_index \in Pages /\ page_index_bak \in Pages
            /\ screen \in Pages \cup {NoPage} /\ screen = NoPage
            BY <1>1, PagesMeet DEF Init, UiInit
      <2>3. page_changed_flag \in BOOLEAN /\ key_value_bak \in BOOLEAN
            BY <1>1, Zenon DEF Init, UiInit
      <2>4. page_index = page_index_bak
            BY <1>1 DEF Init, UiInit
      <2>5. QED
            BY <2>1, <2>2, <2>3, <2>4 DEF ScreenInv, UiTypeOK, ScreenTrue
<1>2. FileInv /\ ReaderInv /\ ScreenInv => TypeOK /\ ScreenTrue
      BY DEF FileInv, FileTypes, ReaderInv, Handles, ScreenInv, TypeOK
<1>3. QED
      BY <1>1, <1>2, NextScreenInv, FileIsKept, PTL DEF Spec

-----------------------------------------------------------------------------
(* The slot of the card *)

Types == /\ inserted \in BOOLEAN /\ answers \in BOOLEAN /\ host_card \in BOOLEAN
         /\ detect_mb \in Nat /\ hotpluge_mb \in Nat
         /\ at \in Places /\ re_sd_check_pin \in BOOLEAN
         /\ mounted \in BOOLEAN /\ sd_status \in 0 .. 1

(* Where sd_mount is tells what is mounted; a question under way finds a   *)
(* card if sd_status still says so.                                        *)
Stages ==
    /\ at \in {"start", "mount", "mount_wait", "dfs_mount"} => ~mounted /\ sd_status = 0
    /\ at \in {"unmount", "unmount_wait"} => ~re_sd_check_pin
    /\ at \in {"start", "mount", "mount_wait", "dfs_mount"} => re_sd_check_pin
    /\ at \in {"put_in", "pulled"} /\ ~re_sd_check_pin => ~mounted /\ sd_status = 0
    /\ at = "unmount_wait" => ~mounted
    /\ mounted => host_card
    /\ at = "mount_wait" /\ hotpluge_mb = 0 => ~host_card
    /\ at = "unmount_wait" /\ hotpluge_mb = 0 /\ sd_status = 1 => detect_mb = 1 /\ host_card
    /\ at = "unmount_wait" /\ hotpluge_mb = 0 /\ detect_mb = 0 => ~host_card

CardInv == Types /\ OneAnswer /\ StatusTrue /\ Stages

LEMMA InitCardInv == CardInit => CardInv
<1> SUFFICES ASSUME CardInit PROVE CardInv
    OBVIOUS
<1>1. Types
      <2>1. detect_mb \in Nat /\ hotpluge_mb \in Nat /\ sd_status \in 0 .. 1
            BY DEF CardInit
      <2>2. at \in Places /\ answers \in BOOLEAN /\ host_card \in BOOLEAN
            /\ re_sd_check_pin \in BOOLEAN /\ mounted \in BOOLEAN
            BY Zenon DEF CardInit, Places
      <2>3. QED
            BY <2>1, <2>2 DEF CardInit, Types
<1>2. OneAnswer /\ StatusTrue
      BY DEF CardInit, OneAnswer, StatusTrue
<1>3. Stages
      BY DEF CardInit, Stages
<1>4. QED
      BY <1>1, <1>2, <1>3 DEF CardInv

(* The looks at the pin change no mailbox *)
LEMMA LookCardInv ==
    ASSUME CardInv, Start \/ LookPutIn \/ LookPulled
    PROVE  CardInv'
<1>1. CASE Start
      <2>1. Types'
            BY <1>1 DEF Start, Looks, slot, driver, CardInv, Types, Places
      <2>2. OneAnswer' /\ StatusTrue'
            BY <1>1
            DEF Start, Looks, slot, driver, CardInv, Types, OneAnswer,
                StatusTrue, Stages, Waits
      <2>3. Stages'
            BY <1>1, Zenon
            DEF Start, Looks, slot, driver, CardInv, Types, Stages
      <2>4. QED
            BY <2>1, <2>2, <2>3 DEF CardInv
<1>2. CASE LookPutIn
      BY <1>2
      DEF LookPutIn, Looks, slot, driver, CardInv, Types, OneAnswer, StatusTrue,
          Stages, Places, Waits
<1>3. CASE LookPulled
      BY <1>3
      DEF LookPulled, Looks, slot, driver, CardInv, Types, OneAnswer,
          StatusTrue, Stages, Places, Waits
<1>4. QED
      BY <1>1, <1>2, <1>3

LEMMA MountCardInv ==
    ASSUME CardInv, Mount \/ MountAnswered \/ DfsMount
    PROVE  CardInv'
<1>1. CASE Mount
      BY <1>1
      DEF Mount, Ask, slot, driver, CardInv, Types, OneAnswer, StatusTrue,
          Stages, Places, Waits
<1>2. CASE MountAnswered
      BY <1>2
      DEF MountAnswered, Answered, slot, CardInv, Types, OneAnswer, StatusTrue,
          Stages, Places, Waits
<1>3. CASE DfsMount
      BY <1>3
      DEF DfsMount, slot, driver, CardInv, Types, OneAnswer, StatusTrue, Stages,
          Places, Waits
<1>4. QED
      BY <1>1, <1>2, <1>3

LEMMA UnmountCardInv ==
    ASSUME CardInv, Unmount \/ UnmountAnswered
    PROVE  CardInv'
<1>1. CASE Unmount
      <2>1. Types'
            <3>1. detect_mb' \in Nat /\ hotpluge_mb' \in Nat
                  BY <1>1 DEF Unmount, Ask, slot, CardInv, Types
            <3>2. /\ at' \in Places /\ host_card' \in BOOLEAN /\ mounted' \in BOOLEAN
                  /\ answers' \in BOOLEAN
                  BY <1>1, Zenon DEF Unmount, Ask, slot, CardInv, Types, Places
            <3>3. QED
                  BY <1>1, <3>1, <3>2 DEF Unmount, Ask, slot, CardInv, Types
      <2>2. OneAnswer' /\ StatusTrue'
            BY <1>1
            DEF Unmount, Ask, slot, CardInv, Types, OneAnswer, StatusTrue,
                Stages, Waits
      <2>3. Stages'
            BY <1>1
            DEF Unmount, Ask, slot, CardInv, Types, OneAnswer, StatusTrue,
                Stages, Waits
      <2>4. QED
            BY <2>1, <2>2, <2>3 DEF CardInv
<1>2. CASE UnmountAnswered
      BY <1>2
      DEF UnmountAnswered, Answered, slot, CardInv, Types, OneAnswer,
          StatusTrue, Stages, Places, Waits
<1>3. QED
      BY <1>1, <1>2

LEMMA DetectCardInv ==
    ASSUME CardInv, Detect \/ Move
    PROVE  CardInv'
<1>1. CASE Detect
      <2>1. at \in Waits /\ detect_mb = 1 /\ hotpluge_mb = 0
            BY <1>1 DEF Detect, CardInv, Types, OneAnswer
      <2>2. CASE host_card /\ Removed
            <3>1. Types'
                  <4>1. detect_mb' \in Nat /\ hotpluge_mb' \in Nat
                        BY <1>1, <2>1, <2>2
                        DEF Detect, Removed, mount, CardInv, Types
                  <4>2. /\ at' \in Places /\ host_card' \in BOOLEAN /\ mounted' \in BOOLEAN
                        /\ answers' \in BOOLEAN
                        BY <1>1, <2>1, <2>2, Zenon
                        DEF Detect, Removed, mount, CardInv, Types, Places
                  <4>3. QED
                        BY <1>1, <2>1, <2>2, <4>1, <4>2
                        DEF Detect, Removed, mount, CardInv, Types
            <3>2. OneAnswer' /\ StatusTrue'
                  BY <1>1, <2>1, <2>2
                  DEF Detect, Removed, mount, CardInv, Types, OneAnswer,
                      StatusTrue, Stages, Waits
            <3>3. Stages'
                  BY <1>1, <2>1, <2>2
                  DEF Detect, Removed, mount, CardInv, Types, OneAnswer,
                      StatusTrue, Stages, Waits
            <3>4. QED
                  BY <3>1, <3>2, <3>3 DEF CardInv
      <2>3. CASE ~host_card /\ (Initialised \/ Refused)
            <3>1. Types'
                  <4>1. detect_mb' \in Nat /\ hotpluge_mb' \in Nat
                        BY <1>1, <2>1, <2>3
                        DEF Detect, Initialised, Refused, mount, CardInv, Types
                  <4>2. /\ at' \in Places /\ host_card' \in BOOLEAN /\ mounted' \in BOOLEAN
                        /\ answers' \in BOOLEAN
                        BY <1>1, <2>1, <2>3, Zenon
                        DEF Detect, Initialised, Refused, mount, CardInv, Types,
                            Places
                  <4>3. QED
                        BY <1>1, <2>1, <2>3, <4>1, <4>2
                        DEF Detect, Initialised, Refused, mount, CardInv, Types
            <3>2. OneAnswer' /\ StatusTrue'
                  BY <1>1, <2>1, <2>3
                  DEF Detect, Initialised, Refused, mount, CardInv, Types,
                      OneAnswer, StatusTrue, Stages, Waits
            <3>3. Stages'
                  BY <1>1, <2>1, <2>3
                  DEF Detect, Initialised, Refused, mount, CardInv, Types,
                      OneAnswer, StatusTrue, Stages, Waits
            <3>4. QED
                  BY <3>1, <3>2, <3>3 DEF CardInv
      <2>4. CASE ~host_card /\ Silence
            BY <1>1, <2>1, <2>4
            DEF Detect, Silence, mount, CardInv, Types, OneAnswer, StatusTrue,
                Stages, Waits
      <2>5. CASE ~host_card /\ Mute
            BY <1>1, <2>1, <2>5
            DEF Detect, Mute, mount, CardInv, Types, OneAnswer, StatusTrue,
                Stages, Waits
      <2>6. QED
            BY <1>1, <2>2, <2>3, <2>4, <2>5 DEF Detect
<1>2. CASE Move
      BY <1>2
      DEF Move, driver, mount, CardInv, Types, OneAnswer, StatusTrue, Stages
<1>3. QED
      BY <1>1, <1>2

LEMMA NextCardInv == CardInv /\ [CardNext]_CardVars => CardInv'
<1> SUFFICES ASSUME CardInv, [CardNext]_CardVars PROVE CardInv'
    OBVIOUS
<1>1. CASE CardNext
      BY <1>1, LookCardInv, MountCardInv, UnmountCardInv, DetectCardInv
      DEF CardNext, SdMount
<1>2. CASE UNCHANGED CardVars
      BY <1>2
      DEF CardVars, slot, driver, mount, CardInv, Types, OneAnswer, StatusTrue,
          Stages
<1>3. QED
      BY <1>1, <1>2

(* The inductive invariant about the two mailboxes, the driver's place and *)
(* the watcher's (filesystem.c:60-90, mmcsd_core.c:640-700).               *)
THEOREM CardIsKept == CardSpec => []CardInv
BY InitCardInv, NextCardInv, PTL DEF CardSpec

(* A question of sd_mount has one answer and no answer is left over        *)
(* (filesystem.c:50 and 76).                                               *)
THEOREM NoAnswerLeftOver == CardSpec => []OneAnswer
<1>1. CardInv => OneAnswer
      BY DEF CardInv
<1>2. QED
      BY <1>1, CardIsKept, PTL

(* sd_status is 1 only of a card that is mounted or being unmounted        *)
(* (filesystem.c:79).                                                      *)
THEOREM StatusIsTrue == CardSpec => []StatusTrue
<1>1. CardInv => StatusTrue
      BY DEF CardInv
<1>2. QED
      BY <1>1, CardIsKept, PTL

(* An sd_mount that waits for ever has said that there is no card          *)
(* (mmcsd_core.c:668).                                                     *)
THEOREM DeafIsHonest == CardSpec => []DeafSaysSo
<1>1. CardInv => DeafSaysSo
      BY DEF CardInv, Types, StatusTrue, Stages, DeafSaysSo, Deaf, Waits
<1>2. QED
      BY <1>1, CardIsKept, PTL

(* Every variable keeps its type; neither mailbox ever holds more than one *)
(* mail, where it has room for four (mmcsd_core.c:42, 730-737).            *)
THEOREM CardTypesAreKept == CardSpec => []CardTypeOK
<1> DEFINE Bounds == moves \in 0 .. MaxMoves /\ refusals \in 0 .. MaxRefusals
<1>1. CardInit => Bounds
      BY CardAssumption DEF CardInit
<1>2. Bounds /\ [CardNext]_CardVars => Bounds'
      BY CardAssumption
      DEF CardNext, SdMount, Start, LookPutIn, LookPulled, Looks, Mount,
          MountAnswered, DfsMount, Unmount, UnmountAnswered, Ask, Answered,
          Detect, Removed, Initialised, Refused, Silence, Mute, Move, CardVars, slot,
          driver, mount
<1>3. CardInv /\ Bounds => CardTypeOK
      BY DEF CardInv, Types, OneAnswer, CardTypeOK
<1>4. QED
      BY <1>1, <1>2, <1>3, CardIsKept, PTL DEF CardSpec
=============================================================================
