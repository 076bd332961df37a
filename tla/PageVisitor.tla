------------------------------ MODULE PageVisitor ------------------------------
(****************************************************************************)
(* source/src/python-web/anti_idel.py: each page of a pool is fetched into  *)
(* a file of its own, and then the images the page names, into files that   *)
(* nobody keeps.  Every fetch may fail, and the process may be killed at    *)
(* any time.                                                                *)
(*                                                                          *)
(* The handler around the fetch of a page names UOSError, which does not    *)
(* exist: to look for it raises NameError, so that the program ends.  A     *)
(* file that is written keeps its text in a buffer until it is closed.      *)
(****************************************************************************)
EXTENDS Naturals, Sequences

CONSTANTS Pages,    \* the keys of urlPool, in their order
          Images    \* the images pages name

PageVisitorAssumption ==
  /\ Pages \in Seq({Pages[j] : j \in DOMAIN Pages})
  /\ \A j, l \in DOMAIN Pages : Pages[j] = Pages[l] => j = l

VARIABLES pc, k,      \* where the loop is: at the page Pages[k]
          file,       \* what each page's file has on the disk: the text of an
                      \* earlier visit, nothing, or the page
          pageFile,   \* what the open file's buffer holds
          imageSet,   \* the images yet to fetch
          fetched,    \* how often each image of the page was asked for
          said        \* the pages of which "write successful" was printed
vars == <<pc, k, file, pageFile, imageSet, fetched, said>>

Names == {Pages[j] : j \in DOMAIN Pages}
page == Pages[k]

Init ==
  /\ pc = "open" /\ k = 1
  /\ file \in [Names -> {"old", "empty"}] /\ pageFile = "empty"
  /\ imageSet = {} /\ fetched = [i \in Images |-> 0] /\ said = {}

\* open(..., 'w+') empties the file before anything is fetched.
Open ==
  /\ pc = "open" /\ k <= Len(Pages)
  /\ pc' = "urlopen" /\ pageFile' = "empty"
  /\ file' = [file EXCEPT ![page] = "empty"]
  /\ UNCHANGED <<k, imageSet, fetched, said>>

\* An exception nobody handles: the with statement closes the file on its way.
Raise ==
  /\ pc' = "ended" /\ file' = [file EXCEPT ![page] = pageFile]
  /\ UNCHANGED <<k, pageFile, imageSet, fetched, said>>

\* urlopen() fails; or a charset nobody knows, or text that is not of it.
FetchFails == pc = "urlopen" /\ Raise

\* The page is read and written, which fills the buffer.
Write ==
  /\ pc = "urlopen"
  /\ pc' = "images" /\ pageFile' = "page" /\ said' = said \cup {page}
  /\ imageSet' \in SUBSET Images
  /\ fetched' = [i \in Images |-> 0]
  /\ UNCHANGED <<k, file>>

\* The images are taken from the set in any order; an OSError is passed over.
Retrieve(i) ==
  /\ pc = "images" /\ i \in imageSet
  /\ imageSet' = imageSet \ {i} /\ fetched' = [fetched EXCEPT ![i] = @ + 1]
  /\ UNCHANGED <<pc, k, file, pageFile, said>>

\* Any other exception is not, as that of an address that is none.
RetrieveFails == pc = "images" /\ imageSet # {} /\ Raise

\* The next page's file is opened before this one is closed.
NextPageOpen ==
  /\ pc = "images" /\ imageSet = {}
  /\ pc' = "open" /\ k' = k + 1
  /\ UNCHANGED <<file, pageFile, imageSet, fetched, said>>

\* The end of the with statement closes the file.
NextPage ==
  /\ pc = "images" /\ imageSet = {}
  /\ pc' = "open" /\ k' = k + 1
  /\ file' = [file EXCEPT ![page] = pageFile]
  /\ UNCHANGED <<pageFile, imageSet, fetched, said>>

\* The process is killed; what is in the buffer is lost.
Killed ==
  /\ pc # "ended" /\ k <= Len(Pages)
  /\ pc' = "ended"
  /\ UNCHANGED <<k, file, pageFile, imageSet, fetched, said>>

Ended == (pc = "ended" \/ k > Len(Pages)) /\ UNCHANGED vars

Next ==
  \/ Open \/ FetchFails \/ Write \/ (\E i \in Images : Retrieve(i))
  \/ RetrieveFails \/ NextPage \/ Killed \/ Ended
Spec == Init /\ [][Next]_vars
-----------------------------------------------------------------------------
(* However the visit ends, it costs at most one page: those in front of it  *)
(* are whole on the disk, those behind it have the text they had, "write    *)
(* successful" was wrong for that one at most, and no image was fetched     *)
(* twice for one page.                                                      *)
AtMostOneLost ==
  [][/\ \A j \in DOMAIN Pages : j < k' => file'[Pages[j]] = "page"
     /\ \A j \in DOMAIN Pages : j > k => file'[Pages[j]] = file[Pages[j]]
     /\ \A p \in said' : file'[p] = "page" \/ p = page
     /\ \A i \in Images : fetched'[i] <= 1]_vars

(* The handler passes over a page that cannot be fetched (anti_idel.py:36,  *)
(* "pass" and "continue"): a visit that is not killed comes to its end.     *)
FailureIsPassedOver == [][~(FetchFails /\ pc' = "ended")]_vars
=============================================================================
