---------------------------- MODULE MybooksLibrary ----------------------------
(***************************************************************************)
(* libmybooks_core as a whole: the engine (MybooksCore) and what it        *)
(* computes from text and bytes (NativeText).  What is computed depends on *)
(* no state, so that what is to hold of it is asked in the first state.    *)
(***************************************************************************)
EXTENDS MybooksCore, NativeText

(* What is written down is read back as it was: objects, records in arrays  *)
(* and sealed passwords.                                                    *)
TextsRoundTrip == events = 0 => ObjectRoundTrip /\ ArrayRoundTrip /\ SealRoundTrip

(* What ArkTS asks for is what the server is asked for: fields, files,      *)
(* pages and address.                                                       *)
CallsArrive == events = 0 => FieldsArrive /\ PartsAligned /\ PagesPartition /\ SameServer

(* An archive is searched to its end, its entries are found, and no data   *)
(* are taken from beyond it.                                                *)
ArchivesInside == events = 0 => EocdReached /\ EntriesFound /\ DataInside
=============================================================================
