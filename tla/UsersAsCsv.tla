----------------------------- MODULE UsersAsCsv -----------------------------
(***************************************************************************)
(* HTTPClient.users_as_csv: a context manager that downloads a CSV file    *)
(* into a temporary directory and gives the caller a generator over it.    *)
(*   pybotx/client/client.py                    users_as_csv               *)
(*   pybotx/client/users_api/users_as_csv.py, user_from_csv.py             *)
(* Rows are converted one by one, as the caller takes them, inside the     *)
(* with block or after it: the generator outlives the file it reads.       *)
(***************************************************************************)
EXTENDS Naturals, Sequences

CONSTANTS
  MaxRows,    \* bound: rows of the server's file
  MaxBlocks   \* bound: times the caller enters the block

ASSUME UsersAsCsvAssumption == MaxRows \in Nat /\ MaxBlocks \in Nat

RowLists == UNION {[1..n -> {"good", "bad"}] : n \in 0..MaxRows}

VARIABLES
  csvPc,      \* the caller is "outside", "downloading" or "inside" the block
  rows,       \* the server's file: rows that convert, and rows that do not
  blocks,     \* times the block was entered
  onDisk,     \* the temporary directories there are, by block
  written,    \* rows written to the temporary file of this block
  reader,     \* the file the generator reads: "none", "open" or "closed"
  generator,  \* "none", "live", or "over" once it has returned or raised
  taken,      \* rows taken from this generator
  ended       \* what it ended with: "none", "StopIteration" or an exception

csvVars ==
  <<csvPc, rows, blocks, onDisk, written, reader, generator, taken, ended>>

CsvInit ==
  /\ csvPc = "outside"
  /\ rows \in RowLists
  /\ blocks = 0
  /\ onDisk = {}
  /\ written = 0
  /\ reader = "none"
  /\ generator = "none"
  /\ taken = 0
  /\ ended = "none"

-----------------------------------------------------------------------------
(* The with statement: TemporaryDirectory and NamedTemporaryFile.          *)
EnterBlock ==
  /\ csvPc = "outside"
  /\ blocks < MaxBlocks
  /\ csvPc' = "downloading"
  /\ blocks' = blocks + 1
  /\ onDisk' = onDisk \union {blocks'}
  /\ written' = 0
  /\ UNCHANGED <<rows, reader, generator, taken, ended>>

(* method.execute writes a chunk.                                          *)
WriteRow ==
  /\ csvPc = "downloading"
  /\ written < Len(rows)
  /\ written' = written + 1
  /\ UNCHANGED <<csvPc, rows, blocks, onDisk, reader, generator, taken, ended>>

(* The file is complete; it is opened again and its generator given out.   *)
GiveGenerator ==
  /\ csvPc = "downloading"
  /\ written = Len(rows)
  /\ csvPc' = "inside"
  /\ reader' = "open"
  /\ generator' = "live"
  /\ taken' = 0
  /\ ended' = "none"
  /\ UNCHANGED <<rows, blocks, onDisk, written>>

(* Deliberate error: no ExitStack around the download.                     *)
DownloadRaisesUncleaned ==
  /\ csvPc = "downloading"
  /\ csvPc' = "outside"
  /\ UNCHANGED <<rows, blocks, onDisk, written, reader, generator, taken, ended>>

(* execute raises: a refusal, a broken stream, a full disk.                *)
DownloadRaises ==
  /\ csvPc = "downloading"
  /\ csvPc' = "outside"
  /\ onDisk' = onDisk \ {blocks}
  /\ UNCHANGED <<rows, blocks, written, reader, generator, taken, ended>>

(* next(generator), inside the block or after it.                          *)
TakeRow ==
  /\ generator = "live"
  /\ reader = "open"
  /\ taken < written
  /\ rows[taken + 1] = "good"
  /\ taken' = taken + 1
  /\ UNCHANGED <<csvPc, rows, blocks, onDisk, written, reader, generator, ended>>

(* The generator raises, and from then on it only says StopIteration.      *)
GeneratorEnds(with) ==
  /\ generator' = "over"
  /\ ended' = with
  /\ UNCHANGED <<csvPc, rows, blocks, onDisk, written, reader, taken>>

(* Deliberate error: a row that does not convert is passed over.           *)
RowSkipped ==
  /\ generator = "live"
  /\ reader = "open"
  /\ taken < written
  /\ rows[taken + 1] = "bad"
  /\ taken' = taken + 1
  /\ UNCHANGED <<csvPc, rows, blocks, onDisk, written, reader, generator, ended>>

(* A row with too many or too few columns, an unknown kind of user...      *)
RowRaises ==
  /\ generator = "live"
  /\ reader = "open"
  /\ taken < written
  /\ rows[taken + 1] = "bad"
  /\ GeneratorEnds("ValidationError")

NoMoreRows ==
  /\ generator = "live"
  /\ reader = "open"
  /\ taken = written
  /\ GeneratorEnds("StopIteration")

(* Reading a closed file is an error, not the end of the file.             *)
TakeFromClosed ==
  /\ generator = "live"
  /\ reader = "closed"
  /\ GeneratorEnds("ValueError")

(* The block is left, by its end or by an exception.                       *)
LeaveBlock ==
  /\ csvPc = "inside"
  /\ csvPc' = "outside"
  /\ reader' = "closed"
  /\ onDisk' = onDisk \ {blocks}
  /\ UNCHANGED <<rows, blocks, written, generator, taken, ended>>

CsvNext ==
  \/ EnterBlock
  \/ WriteRow
  \/ GiveGenerator
  \/ DownloadRaises
  \/ TakeRow
  \/ RowRaises
  \/ NoMoreRows
  \/ TakeFromClosed
  \/ LeaveBlock

CsvSpec == CsvInit /\ [][CsvNext]_csvVars
-----------------------------------------------------------------------------
CsvTypeOK ==
  /\ csvPc \in {"outside", "downloading", "inside"}
  /\ rows \in RowLists
  /\ blocks \in Nat
  /\ onDisk \in SUBSET Nat
  /\ written \in Nat
  /\ reader \in {"none", "open", "closed"}
  /\ generator \in {"none", "live", "over"}
  /\ taken \in Nat
  /\ ended \in {"none", "StopIteration", "ValidationError", "ValueError"}

(* However a block is left, and however many came before it, only the one  *)
(* the caller is in has its directory on the disk.                         *)
OnlyOwnDirectory == onDisk = IF csvPc = "outside" THEN {} ELSE {blocks}

(* A loop over the users that ends without an exception has seen the whole *)
(* of the server's file, every row of it: neither a broken download, nor a *)
(* bad row, nor a loop that runs on after the block ends it quietly.       *)
QuietEndIsWhole ==
  ended = "StopIteration" =>
    taken = Len(rows) /\ \A i \in 1..Len(rows) : rows[i] = "good"
=============================================================================
