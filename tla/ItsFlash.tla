------------------------------ MODULE ItsFlash ------------------------------
(***************************************************************************)
(* Internal trusted storage over raw flash (src/psa_layer/psa_its_flash.c  *)
(* on src/hal/flash/soc/esp8266), the build for the ESP8266.  Each uid has *)
(* a place in one block, for a header and the data behind it.  The driver  *)
(* opens the EEPROM library for as many bytes as it reads or writes,       *)
(* wherever they are: what lies beyond that size is neither read nor       *)
(* written, and a commit erases the whole sector.  A cell is a word of     *)
(* four bytes.                                                             *)
(***************************************************************************)
EXTENDS Naturals, Sequences

CONSTANTS
    Slots,          \* places in the block, 4
    SlotCells,      \* cells of one place, IOTEX_HAL_FLASH_KEY_SLOT_SIZE
    MagicLength,    \* cells of PSA_ITS_MAGIC_STRING
    HeaderLength,   \* cells of psa_its_flash_header_t: magic, size and flags
    PlaceLimit,     \* 2^25: an offset has 32 bits, so this many uids have
                    \* places of their own
    FlashUids,      \* storage uids in use, from 1; more than Slots is legal
    FlashFiles,     \* the values a client stores
    CellsOf,        \* CellsOf[f]: number of cells of f, no file being empty
    FlashFaults     \* "commit", "erase": the commit of a write, or of the
                    \* erase, fails; only the first is reported

ASSUME ItsFlashAssumption ==
    /\ {Slots, SlotCells, MagicLength, HeaderLength, PlaceLimit}
          \subseteq Nat \ {0}
    /\ MagicLength < HeaderLength
    /\ HeaderLength <= SlotCells
    /\ FlashUids \subseteq Nat \ {0}
    /\ CellsOf \in [FlashFiles -> Nat \ {0}]
    /\ FlashFiles \cap {"zero", "lost", "magic", "size", "gone", "open"} = {}
    /\ FlashFaults \subseteq {"commit", "erase"}

VARIABLES
    flash,      \* flash[a]: the content of cell a
    flash_pc,   \* where the running psa_its_set or psa_its_remove is
    flash_call, \* its arguments
    kept        \* history: kept[u] is the file psa_its_set said u has, Gone
                \* when an erase took its effect, Open when neither holds

flashVars == <<flash, flash_pc, flash_call, kept>>

Gone == "gone"
Open == "open"

BlockEnd == Slots * SlotCells
Addresses == 0 .. BlockEnd - 1
Zero == <<"zero", 0>>           \* what the erase writes
Lost == <<"lost", 0>>           \* erased, or half so, and not written again
Magic(i) == <<"magic", i>>
Size(n) == <<"size", n>>
Piece(f, i) == <<f, i>>
FlashCells ==
    {Zero, Lost} \cup {Magic(i) : i \in 1 .. MagicLength}
        \cup {Size(CellsOf[f]) : f \in FlashFiles}
        \cup UNION {{Piece(f, i) : i \in 1 .. CellsOf[f]} : f \in FlashFiles}

NoFlashCall == [op |-> "none"]
FlashTypeOK ==
    /\ flash \in [Addresses -> FlashCells]
    /\ flash_pc \in {"idle", "header", "data", "erase"}
    /\ flash_call \in {NoFlashCall, [op |-> "remove"]}
                      \cup [op : {"set"}, uid : FlashUids, file : FlashFiles]
    /\ kept \in [FlashUids -> FlashFiles \cup {Gone, Open}]

FlashInit ==
    /\ flash = [a \in Addresses |-> Zero]
    /\ flash_pc = "idle"
    /\ flash_call = NoFlashCall
    /\ kept = [u \in FlashUids |-> Gone]

(* Where the header of u goes: (uid - 1) * IOTEX_HAL_FLASH_KEY_SLOT_SIZE   *)
(* as an unsigned int.                                                     *)
Place(u) == ((u - 1) % PlaceLimit) * SlotCells

FlashReturn == flash_pc' = "idle" /\ flash_call' = NoFlashCall

-----------------------------------------------------------------------------
(* The EEPROM library, begun for the length of buf.  It holds the first    *)
(* cells of the sector in memory and drops a write beyond them.  A commit  *)
(* does nothing when no cell changed; else it erases the sector and        *)
(* programs the cells it holds.                                            *)
Dirty(at, buf) ==
    \E i \in 1 .. Len(buf) :
        at + i - 1 < Len(buf) /\ flash[at + i - 1] # buf[i]

Programmed(at, buf) ==
    [a \in Addresses |-> IF a >= Len(buf) THEN Lost
                         ELSE IF a - at + 1 \in 1 .. Len(buf)
                         THEN buf[a - at + 1] ELSE flash[a]]

Committed(at, buf) == IF Dirty(at, buf) THEN Programmed(at, buf) ELSE flash

(* What a commit leaves that fails, or that a power failure ends: some     *)
(* cells not yet erased, or some not yet programmed.                       *)
Interrupted(at, buf) ==
    {[a \in Addresses |-> IF a \in rest THEN flash[a] ELSE Lost] :
        rest \in SUBSET {a \in Addresses : flash[a] # Lost}}
    \cup {[a \in Addresses |-> IF a < n THEN Programmed(at, buf)[a] ELSE Lost] :
        n \in 0 .. Len(buf)}

(* esp8266_hal_flash_write.  A write past the block is refused; it is not  *)
(* checked against the place.  After a commit that failed, EEPROM.end()    *)
(* tries it again.                                                         *)
FlashWrite(at, buf, ok) ==
    LET fits == at + Len(buf) <= BlockEnd
    IN  \/ ok /\ fits /\ flash' = Committed(at, buf)
        \/ ~ ok /\ ~ fits /\ UNCHANGED flash
        \/ /\ ~ ok /\ fits
           /\ "commit" \in FlashFaults
           /\ Dirty(at, buf)
           /\ flash' \in {Committed(at, buf)} \cup Interrupted(at, buf)

(* esp8266_hal_flash_read of n cells, when they are in the block.          *)
FlashRead(at, n) ==
    [i \in 1 .. n |-> IF at + i - 1 < n THEN flash[at + i - 1] ELSE Zero]

-----------------------------------------------------------------------------
(* The two buffers that psa_its_set writes: the flags are 0.               *)
Header_Terminated(f) ==   \* mutant: the size counts a terminator
    [i \in 1 .. HeaderLength |-> IF i <= MagicLength THEN Magic(i)
                                 ELSE IF i = MagicLength + 1
                                 THEN Size(CellsOf[f] + 1) ELSE Zero]

Header(f) ==
    [i \in 1 .. HeaderLength |-> IF i <= MagicLength THEN Magic(i)
                                 ELSE IF i = MagicLength + 1
                                 THEN Size(CellsOf[f]) ELSE Zero]

Pieces(f) == [i \in 1 .. CellsOf[f] |-> Piece(f, i)]

DataPlace_AtHeader(u) == Place(u)   \* mutant: the offset leaves out the header
DataPlace(u) == Place(u) + HeaderLength

(* The size field, when something else is in it: 0, or more than any file. *)
SizeIn(cell) ==
    IF cell[1] = "size" THEN cell[2] ELSE IF cell = Zero THEN 0 ELSE BlockEnd

(* psa_its_get_info, and psa_its_get of the size it reports: the cells.    *)
FlashGetInfo(u) ==
    LET header == FlashRead(Place(u), HeaderLength)
    IN  IF Place(u) + HeaderLength > BlockEnd
        THEN [status |-> "DATA_CORRUPT", cells |-> 0]
        ELSE IF \E i \in 1 .. MagicLength : header[i] # Magic(i)
        THEN [status |-> "DOES_NOT_EXIST", cells |-> 0]
        ELSE [status |-> "SUCCESS", cells |-> SizeIn(header[MagicLength + 1])]

FlashGet(u, n) ==
    IF DataPlace(u) + n > BlockEnd
    THEN [status |-> "STORAGE_FAILURE", data |-> <<>>]
    ELSE [status |-> "SUCCESS", data |-> FlashRead(DataPlace(u), n)]

(* What a client finds for u: its size, and then its data.                 *)
Finds(u, n, data) ==
    /\ FlashGetInfo(u) = [status |-> "SUCCESS", cells |-> n]
    /\ FlashGet(u, n) = [status |-> "SUCCESS", data |-> data]

-----------------------------------------------------------------------------
(* psa_its_set: two writes.  Those that land in the cells the library      *)
(* holds rewrite the sector.  From its begin nothing is promised of its    *)
(* uid, nor, if it may land, of any file and of the uids with its place.   *)
Lands(u, f) ==
    Place(u) < HeaderLength \/ DataPlace(u) < CellsOf[f]

FlashSetBegin(u, f) ==
    /\ flash_pc = "idle"
    /\ flash_pc' = "header"
    /\ flash_call' = [op |-> "set", uid |-> u, file |-> f]
    /\ kept' = [w \in FlashUids |->
                  IF \/ w = u
                     \/ /\ Lands(u, f)
                        /\ kept[w] \in FlashFiles \/ Place(w) = Place(u)
                  THEN Open ELSE kept[w]]
    /\ UNCHANGED flash

FlashSetHeader ==
    /\ flash_pc = "header"
    /\ \E ok \in BOOLEAN :
          /\ FlashWrite(Place(flash_call.uid), Header(flash_call.file), ok)
          /\ IF ok THEN flash_pc' = "data" /\ UNCHANGED flash_call ELSE FlashReturn
    /\ UNCHANGED kept

FlashSetData ==
    /\ flash_pc = "data"
    /\ \E ok \in BOOLEAN :
          /\ FlashWrite(DataPlace(flash_call.uid), Pieces(flash_call.file), ok)
          /\ kept' = IF ok THEN [kept EXCEPT ![flash_call.uid] = flash_call.file]
                           ELSE kept
    /\ FlashReturn

-----------------------------------------------------------------------------
(* psa_its_remove: the driver erases the whole block, whatever the         *)
(* address, and reports success, also when EEPROM.end() does not.          *)
Zeros == [i \in 1 .. BlockEnd |-> Zero]

FlashRemove ==
    /\ flash_pc = "idle"
    /\ flash_pc' = "erase"
    /\ flash_call' = [op |-> "remove"]
    /\ kept' = [w \in FlashUids |-> Open]
    /\ UNCHANGED flash

FlashErase_NotCommitted ==   \* mutant: EEPROM.end() is left out
    /\ flash_pc = "erase"
    /\ kept' = [w \in FlashUids |-> Gone]
    /\ UNCHANGED flash
    /\ FlashReturn

FlashErase ==
    /\ flash_pc = "erase"
    /\ \/ /\ flash' = Committed(0, Zeros)
          /\ kept' = [w \in FlashUids |-> Gone]
       \/ /\ "erase" \in FlashFaults
          /\ Dirty(0, Zeros)
          /\ flash' \in Interrupted(0, Zeros)
          /\ UNCHANGED kept
    /\ FlashReturn

-----------------------------------------------------------------------------
(* The power fails, in the middle of a commit or not.                      *)
Cuts(at, buf) ==
    IF at + Len(buf) <= BlockEnd /\ Dirty(at, buf) THEN Interrupted(at, buf)
                                                   ELSE {}

FlashPowerFailure ==
    /\ \/ UNCHANGED flash
       \/ /\ flash_pc = "header"
          /\ flash' \in Cuts(Place(flash_call.uid), Header(flash_call.file))
       \/ /\ flash_pc = "data"
          /\ flash' \in Cuts(DataPlace(flash_call.uid), Pieces(flash_call.file))
       \/ flash_pc = "erase" /\ flash' \in Cuts(0, Zeros)
    /\ FlashReturn
    /\ UNCHANGED kept

FlashNext ==
    \/ FlashSetHeader \/ FlashSetData \/ FlashErase \/ FlashPowerFailure
    \/ FlashRemove
    \/ \E u \in FlashUids, f \in FlashFiles : FlashSetBegin(u, f)

-----------------------------------------------------------------------------
(* "psa_its_get: retrieve the value associated with a provided uid": a     *)
(* file reported stored by psa_its_set is found whole, until a psa_its_set *)
(* that lands or a psa_its_remove begins.                                  *)
FlashKeepsFiles ==
    \A u \in FlashUids :
        kept[u] \in FlashFiles => Finds(u, CellsOf[kept[u]], Pieces(kept[u]))

(* What is true of a file that psa_its_set reported stored: at the first   *)
(* place it has its size and its beginning; as many cells as the header    *)
(* has are read as zeros at its end, for psa_its_get stops there.  So it   *)
(* stays through failed and interrupted calls for other uids, until a      *)
(* psa_its_set that lands or a psa_its_remove begins.                      *)
Beginning(f) ==
    [i \in 1 .. CellsOf[f] |-> IF HeaderLength + i <= CellsOf[f] THEN Piece(f, i)
                                                                 ELSE Zero]
FlashKeepsBeginnings ==
    \A u \in FlashUids :
        kept[u] \in FlashFiles /\ Place(u) = 0 =>
            Finds(u, CellsOf[kept[u]], Beginning(kept[u]))

(* After an erase that took its effect no uid has a file, and none appears *)
(* before it is written: what other uids' files, commits that fail and     *)
(* power failures leave in a place is never taken for one.                 *)
NoFlashFileAppears ==
    \A u \in FlashUids : kept[u] = Gone => FlashGetInfo(u).status # "SUCCESS"
=============================================================================
