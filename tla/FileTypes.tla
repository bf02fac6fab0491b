------------------------------ MODULE FileTypes -----------------------------
(***************************************************************************)
(* The MTP type of a file.  Whenever contents go to the device,            *)
(* MtpDevice::SendFile lets libmagic look at the beginning of the          *)
(* temporary file, turns the MIME type into an MTP type and then sends the *)
(* file from where its descriptor stands.  One file is created, written,   *)
(* emptied and saved again; every save makes a new object.                 *)
(***************************************************************************)
EXTENDS Naturals

CONSTANTS Mimes,    \* MIME types that contents may have: a type and a subtype
          MaxSize,  \* size of the longest file
          Buffer    \* MAGIC_BUFFER_SIZE

NoMime == <<"", "">>    \* libmagic has no answer, or was not asked

Video(subtype) == <<"video", subtype>>
Audio(subtype) == <<"audio", subtype>>
Image(subtype) == <<"image", subtype>>
App(subtype)   == <<"application", subtype>>
Text(subtype)  == <<"text", subtype>>

\* The MIME types that are named one by one, by the MTP type they get.  (The
\* table also names "LIBMTP_FILETYPE_AVI", which is no MIME type.)
Table ==
  [QT |-> {Video("quicktime")}, ASF |-> {Video("x-ms-asf")}, AVI |-> {Video("x-msvideo")},
   MP4 |-> {Video("mp4"), Video("3gpp")}, MPEG |-> {Video("mpeg"), Video("mpeg4-generic")},
   UNDEF_VIDEO |-> {Video(s) : s \in {"x-sgi-movie", "x-fli", "x-flc", "x-unknown",
                                      "x-mng", "x-jng", "h264"}},
   M4A |-> {Audio("mp4"), Audio("x-mp4a-latm")}, FLAC |-> {Audio("x-flac")},
   AAC |-> {Audio("x-hx-aac-adif"), Audio("x-hx-aac-adts")},
   WAV |-> {Audio("x-wav")}, MP3 |-> {Audio("mpeg")}, OGG |-> {App("ogg")},
   UNDEF_AUDIO |-> {Audio(s) : s \in {"basic", "midi", "x-unknown", "x-pn-realaudio", "x-mod"}},
   JP2 |-> {Image("jp2")}, TIFF |-> {Image("tiff")}, PNG |-> {Image("png")},
   GIF |-> {Image("gif")}, BMP |-> {Image("x-ms-bmp")}, JPEG |-> {Image("jpeg")},
   VCALENDAR2 |-> {Text("calendar")}, VCARD2 |-> {Text("x-vcard")}, HTML |-> {Text("html")},
   TEXT |-> {App("xml")}, WINEXEC |-> {App("x-dosexec")}, DOC |-> {App("msword")},
   XLS |-> {App("vnd.ms-excel")}, PPT |-> {App("vnd.ms-powerpoint")}]

Named == UNION {Table[t] : t \in DOMAIN Table}

\* The rest goes by the type alone.  The test for "text/" is the statement
\* of the "if" before it, which asks for an empty string.
ByPrefix_DeadAudio(mime) ==    \* the test for "audio/" hangs on that "if" too
  CASE mime = NoMime /\ mime[1] = "text" -> "TEXT"
    [] mime[1] = "video" -> "UNDEF_VIDEO"
    [] mime = NoMime /\ mime[1] = "audio" -> "UNDEF_AUDIO"
    [] OTHER -> "UNKNOWN"
ByPrefix(mime) ==
  CASE mime = NoMime /\ mime[1] = "text" -> "TEXT"
    [] mime[1] = "video" -> "UNDEF_VIDEO"
    [] mime[1] = "audio" -> "UNDEF_AUDIO"
    [] OTHER -> "UNKNOWN"

PropertyTypeFromMimeType(mime) ==
  IF mime \in Named THEN CHOOSE t \in DOMAIN Table : mime \in Table[t] ELSE ByPrefix(mime)

-----------------------------------------------------------------------------
VARIABLES local,    \* the temporary file: the MIME type of its bytes, and its size
          offset,   \* where its descriptor stands
          filetype, \* destination->filetype
          stage,    \* "open", or what SendFile does next
          device,   \* the object: its type, MIME type and size of what it holds, and
                    \* (history) whether libmagic recognised it on the way there
          recognised \* history: libmagic has answered for the file about to be sent

vars == <<local, offset, filetype, stage, device, recognised>>

Types == DOMAIN Table \cup {"UNKNOWN"}
Contents == [mime : Mimes \cup {NoMime}, size : 0 .. MaxSize]
Files == {f \in Contents : f.mime = NoMime <=> f.size = 0}

TypeOK == /\ local \in Files
          /\ offset \in 0 .. MaxSize
          /\ filetype \in Types
          /\ stage \in {"open", "look", "send"}
          /\ device \in [type : Types, holds : Contents, recognised : BOOLEAN]
          /\ recognised \in BOOLEAN

Empty == [mime |-> NoMime, size |-> 0]

\* MtpFolder::CreateFile sends an empty file.
Init == /\ local = Empty /\ offset = 0 /\ filetype = "UNKNOWN" /\ stage = "open"
        /\ device = [type |-> "UNKNOWN", holds |-> Empty, recognised |-> FALSE]
        /\ recognised = FALSE

\* Writes and truncates change the local copy and leave the descriptor anywhere.
Change == /\ stage = "open"
          /\ local' \in Files /\ offset' \in 0 .. MaxSize
          /\ UNCHANGED <<filetype, stage, device, recognised>>

\* MtpLocalFileCopy::close and CopyTo: go back to the start, and describe
\* the new object (LIBMTP_new_file_t knows no type yet).
NewFile_NoSeek == /\ stage = "open"
                  /\ filetype' = "UNKNOWN" /\ stage' = "look"
                  /\ recognised' = FALSE
                  /\ UNCHANGED <<local, offset, device>>
NewFile == /\ stage = "open"
           /\ offset' = 0 /\ filetype' = "UNKNOWN" /\ stage' = "look"
           /\ recognised' = FALSE
           /\ UNCHANGED <<local, device>>

\* magic_buffer on the first bytes of a file that has any: it answers with
\* the MIME type, or with no string at all, and the type stays as it is.
AskMagic ==
  \/ UNCHANGED <<filetype, recognised>>
  \/ /\ local.size > 0
     /\ filetype' = PropertyTypeFromMimeType(local.mime) /\ recognised' = TRUE

\* SendFile looks at the first bytes and goes back; libmagic may fail.
Look_NoRewind ==
  /\ stage = "look"
  /\ offset' = IF local.size = 0 THEN offset ELSE IF local.size < Buffer THEN local.size ELSE Buffer
  /\ AskMagic
  /\ stage' = "send"
  /\ UNCHANGED <<local, device>>
Look ==
  /\ stage = "look"
  /\ offset' = IF local.size = 0 THEN offset ELSE 0
  /\ AskMagic
  /\ stage' = "send"
  /\ UNCHANGED <<local, device>>

\* libmtp sends what is left from the descriptor's place on.
Send == /\ stage = "send"
        /\ device' = [type |-> filetype,
                      holds |-> [mime |-> local.mime, size |-> local.size - offset],
                      recognised |-> recognised]
        /\ offset' = local.size
        /\ stage' = "open"
        /\ UNCHANGED <<local, filetype, recognised>>

Next == Change \/ NewFile \/ Look \/ Send

Spec == Init /\ [][Next]_vars

-----------------------------------------------------------------------------
(* Properties.                                                             *)

AudioTypes == {"M4A", "AAC", "FLAC", "WAV", "MP3", "OGG", "UNDEF_AUDIO"}
VideoTypes == {"QT", "ASF", "AVI", "MP4", "MPEG", "UNDEF_VIDEO"}

\* Music and videos that libmagic recognises arrive as such, named in the
\* table or not, and nothing else does (but Ogg, which may be either),
\* whatever the file held when it was saved before; what libmagic failed on,
\* or was not asked about, has no type.
MediaArriveAsSuch ==
  IF device.recognised
  THEN /\ device.holds.mime[1] = "audio" => device.type \in AudioTypes
       /\ device.holds.mime[1] = "video" => device.type \in VideoTypes
       /\ device.type \in AudioTypes \cup VideoTypes
            => device.holds.mime[1] \in {"audio", "video"} \/ device.holds.mime = App("ogg")
  ELSE device.type = "UNKNOWN"

\* "MTP file types are set automatically based on file type detection using
\* libmagic" (README), for every text as the test for "text/" intends: no
\* text that libmagic has recognised arrives without a type.
TextIsText ==
  device.recognised /\ device.holds.mime[1] = "text" => device.type # "UNKNOWN"
=============================================================================
