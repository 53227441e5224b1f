---------------------------- MODULE FileBuffers ----------------------------
(***************************************************************************)
(* The buffers that callers hand to the client: files are downloaded into  *)
(* them and sent from them, and what one call leaves in a buffer, and at   *)
(* which position, is what the next one finds.                             *)
(*   pybotx/client/client.py     download_file, upload_file,               *)
(*                               upload_static_file, add_sticker           *)
(*   pybotx/client/files_api/*, smartapps_api/upload_file.py,              *)
(*   stickers_api/add_sticker.py, image_validators.py, buffer.py           *)
(*   pybotx/models/files.py      FileBase.open                             *)
(*   pybotx/models/stickers.py   Sticker.download                          *)
(*   pybotx/models/attachments.py  OutgoingAttachment.from_buffer          *)
(* A file is a sequence of chunks.  A file object overwrites from its      *)
(* position and is rewound by seek(0) only.                                *)
(***************************************************************************)
EXTENDS Naturals, Sequences

CONSTANTS
  Chunks,       \* the chunks files are made of
  RemoteFiles,  \* the files of the server
  OwnFiles,     \* the files the caller may open
  PngHeads,     \* first chunks of a PNG
  MaxImage,     \* STICKER_IMAGE_MAX_SIZE, in chunks
  MaxData       \* bound: chunks in a buffer when a download into it begins

ASSUME FileBuffersAssumption ==
  /\ RemoteFiles \subseteq Seq(Chunks)
  /\ OwnFiles \subseteq Seq(Chunks)
  /\ MaxImage \in Nat
  /\ MaxData \in Nat

VARIABLES
  bufferPc,  \* "idle", "downloading" or "opening"
  data,      \* what is in the buffer
  position,  \* where it is read and written next
  file,      \* the file of this download
  fetched,   \* chunks of it written
  fits,      \* did the download begin at the start of a buffer that held no
             \* more than the file? (history)
  expected,  \* {f} if f was then downloaded without error, else {} (history)
  rewound,   \* is the buffer as opened, downloaded or rewound? (history)
  request    \* the last call that sent a file or refused to: what it sent, its
             \* error, what the buffer held, and was it rewound? (history)

bufferVars ==
  <<bufferPc, data, position, file, fetched, fits, expected, rewound, request>>

NoRequest == [by |-> "nobody"]

BufferInit ==
  /\ bufferPc = "idle"
  /\ data = <<>>
  /\ position = 0
  /\ file = <<>>
  /\ fetched = 0
  /\ fits = FALSE
  /\ expected = {}
  /\ rewound = TRUE
  /\ request = NoRequest

-----------------------------------------------------------------------------
(* write(new) at a position no further than the end.                       *)
Overwrite(old, at, new) ==
  [i \in DOMAIN old \union ((at + 1)..(at + Len(new))) |->
     IF i \in (at + 1)..(at + Len(new)) THEN new[i - at] ELSE old[i]]

(* The caller opens a file or makes an empty buffer; it rewinds its own.   *)
TakeBuffer ==
  /\ bufferPc = "idle"
  /\ data' \in OwnFiles \union {<<>>}
  /\ position' = 0
  /\ expected' = {}
  /\ rewound' = TRUE
  /\ UNCHANGED <<bufferPc, file, fetched, fits, request>>

Rewind ==
  /\ bufferPc = "idle"
  /\ position' = 0
  /\ rewound' = TRUE
  /\ UNCHANGED <<bufferPc, data, file, fetched, fits, expected, request>>

StartFetching(place) ==
  /\ bufferPc' = place
  /\ file' \in RemoteFiles
  /\ fetched' = 0
  /\ expected' = {}
  /\ UNCHANGED <<rewound, request>>

(* Written from where the buffer is, new covers all there is.              *)
Covers(new) == position = 0 /\ Len(data) <= Len(new)

(* download_file into the caller's buffer, as it is.                       *)
DownloadFile ==
  /\ bufferPc = "idle"
  /\ Len(data) <= MaxData
  /\ StartFetching("downloading")
  /\ fits' = Covers(file')
  /\ UNCHANGED <<data, position>>

(* FileBase.open downloads into a temporary file of its own.               *)
OpenFile ==
  /\ bufferPc = "idle"
  /\ StartFetching("opening")
  /\ data' = <<>>
  /\ position' = 0
  /\ fits' = TRUE

Fetching == bufferPc \in {"downloading", "opening"}

WriteFetched ==
  /\ Fetching
  /\ fetched < Len(file)
  /\ data' = Overwrite(data, position, <<file[fetched + 1]>>)
  /\ position' = position + 1
  /\ fetched' = fetched + 1
  /\ UNCHANGED <<bufferPc, file, fits, expected, rewound, request>>

(* Deliberate error: a stream that breaks is begun again as it is.         *)
DownloadBeginsAgain ==
  /\ bufferPc = "downloading"
  /\ fetched' = 0
  /\ UNCHANGED <<bufferPc, data, position, file, fits, expected, rewound, request>>

(* A refusal or a broken stream: what was written stays, unrewound.        *)
DownloadBreaks ==
  /\ bufferPc = "downloading"
  /\ bufferPc' = "idle"
  /\ rewound' = FALSE
  /\ UNCHANGED <<data, position, file, fetched, fits, expected, request>>

(* ... but nobody gets the temporary file of an open that raises.          *)
OpenBreaks ==
  /\ bufferPc = "opening"
  /\ bufferPc' = "idle"
  /\ data' = <<>>
  /\ position' = 0
  /\ rewound' = TRUE
  /\ UNCHANGED <<file, fetched, fits, expected, request>>

FetchReturns ==
  /\ Fetching
  /\ fetched = Len(file)
  /\ bufferPc' = "idle"
  /\ expected' = IF fits THEN {file} ELSE {}
  /\ rewound' = TRUE
  /\ UNCHANGED <<data, file, fetched, fits, request>>

(* Deliberate error: no buffer.seek(0) after the last chunk.               *)
DownloadEndsThere == FetchReturns /\ UNCHANGED position

DownloadEnds == FetchReturns /\ position' = 0

(* Sticker.download has all of the image before it writes; an error leaves *)
(* the buffer alone.                                                       *)
DownloadSticker ==
  /\ bufferPc = "idle"
  /\ Len(data) <= MaxData
  /\ file' \in RemoteFiles
  /\ data' = Overwrite(data, position, file')
  /\ position' = 0
  /\ expected' = IF Covers(file') THEN {file'} ELSE {}
  /\ rewound' = TRUE
  /\ fetched' = Len(file')
  /\ UNCHANGED <<bufferPc, fits, request>>

-----------------------------------------------------------------------------
ReadOn(at) == [i \in 1..(Len(data) - at) |-> data[at + i]]

(* The buffer is read to its end before the URL is built, so that even an  *)
(* unknown account leaves it there; the request may fail like any other.   *)
ReadAndSend(call, at) ==
  /\ bufferPc = "idle"
  /\ request' = [by |-> call, error |-> "none", content |-> ReadOn(at),
                 whole |-> data, rewound |-> rewound]
  /\ position' = Len(data)
  /\ rewound' = FALSE
  /\ UNCHANGED <<bufferPc, data, file, fetched, fits, expected>>

(* upload_file, upload_static_file and OutgoingAttachment.from_buffer read *)
(* on from where the buffer is.                                            *)
Upload == ReadAndSend("upload", position)

IsPng(chunks) == chunks # <<>> /\ chunks[1] \in PngHeads

LargeImage == Len(data) > MaxImage

(* Deliberate error: the check of the first bytes does not rewind.         *)
AddStickerFromThere ==
  /\ IsPng(ReadOn(position))
  /\ ~LargeImage
  /\ ReadAndSend("add_sticker", position + 1)

(* add_sticker: the first bytes are read where the buffer is, then both    *)
(* checks rewind it.                                                       *)
AddSticker ==
  /\ IsPng(ReadOn(position))
  /\ ~LargeImage
  /\ ReadAndSend("add_sticker", 0)

RefuseSticker ==
  /\ bufferPc = "idle"
  /\ ~IsPng(ReadOn(position)) \/ LargeImage
  /\ request' = [by |-> "add_sticker", content |-> <<>>, whole |-> data,
                 error |-> IF IsPng(ReadOn(position)) THEN "too large" ELSE "not PNG",
                 rewound |-> rewound]
  /\ position' = 0
  /\ rewound' = TRUE
  /\ UNCHANGED <<bufferPc, data, file, fetched, fits, expected>>

BufferNext ==
  \/ TakeBuffer
  \/ Rewind
  \/ DownloadFile
  \/ OpenFile
  \/ WriteFetched
  \/ DownloadBreaks
  \/ OpenBreaks
  \/ DownloadEnds
  \/ DownloadSticker
  \/ Upload
  \/ AddSticker
  \/ RefuseSticker

BufferSpec == BufferInit /\ [][BufferNext]_bufferVars
-----------------------------------------------------------------------------
Contents == Seq(Chunks)

BufferTypeOK ==
  /\ bufferPc \in {"idle", "downloading", "opening"}
  /\ data \in Contents
  /\ position \in 0..Len(data)
  /\ file \in Contents
  /\ fetched \in 0..Len(file)
  /\ fits \in BOOLEAN
  /\ expected \in SUBSET Contents
  /\ rewound \in BOOLEAN

(* A download that returns leaves the file in the buffer, all and nothing  *)
(* else, if it began at the start of a buffer that held no more than the   *)
(* file: an empty one, the temporary file of FileBase.open, or one that    *)
(* the caller has rewound after a download broke off and tries again with. *)
(* In a buffer that is not rewound, or holds more, the rest of what was    *)
(* there stays before or after the file.                                   *)
DownloadedWhole == bufferPc = "idle" => \A f \in expected : data = f

(* What is sent is all that the buffer holds if nothing has read it since  *)
(* it was opened, downloaded into or rewound: the file of a download can   *)
(* be handed on as it is.                                                  *)
UploadSentWhole ==
  request # NoRequest /\ request.by = "upload" /\ request.rewound =>
    request.content = request.whole

(* The image of a sticker is sent from its beginning, however often the    *)
(* buffer was read before: a call that is repeated sends no torn image.    *)
StickerSentWhole ==
  request # NoRequest /\ request.by = "add_sticker" /\ request.error = "none" =>
    request.content = request.whole

(* However downloads, uploads and stickers follow each other in one buffer *)
(* and break off, no request carries the rest of a file for the whole of   *)
(* it.  An upload from a buffer that was read before is the caller's own   *)
(* affair: upload_file reads from where the buffer is.                     *)
SentFileIsWhole == UploadSentWhole /\ StickerSentWhole

(* "Passed file is not PNG" (image_validators.py:13) is said of files that *)
(* are not PNG.                                                            *)
RefusedAsNoPng ==
  request # NoRequest /\ request.error = "not PNG" => ~IsPng(request.whole)
=============================================================================
