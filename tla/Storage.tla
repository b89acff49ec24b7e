------------------------------ MODULE Storage ------------------------------
(***************************************************************************)
(* The storage service (applications/services/storage): the table of open  *)
(* files, which gives a path to one File at a time, and the protocol by    *)
(* which storage_file_open waits for a path that is taken.  Every call is  *)
(* a message that the service's one thread handles, so each is one step    *)
(* here; what a thread does between its calls is left to the modules that  *)
(* use this one.                                                           *)
(*                                                                         *)
(* The card may fail any open, write or remove (the parameter `fault').    *)
(***************************************************************************)

CONSTANTS
    Threads,   \* the threads that use the storage
    Files      \* the paths they use

VARIABLES
    opened,    \* opened[f]: the thread whose File is in the table, or Nobody
    content,   \* content[f]: what the card holds
    job,       \* job[t]: the storage_file_open of t, or the File it has open
    closed     \* closed[t]: StorageEventFlagFileClose of t's event

storageVars == <<opened, content, job, closed>>

Nobody == "nobody"

NoFile == <<"no file">>

Empty == <<>>

\* No File at all.
Idle == [at |-> "none", file |-> Nobody, mode |-> Nobody]

StorageInit ==
    /\ opened = [f \in Files |-> Nobody]
    /\ content = [f \in Files |-> NoFile]
    /\ job = [t \in Threads |-> Idle]
    /\ closed = [t \in Threads |-> FALSE]

-----------------------------------------------------------------------------

\* storage_file_open subscribes to the close events before it tries anything.
OpenBegins(t, f, mode) ==
    /\ job[t] = Idle
    /\ job' = [job EXCEPT ![t] = [at |-> "try", file |-> f, mode |-> mode]]
    /\ closed' = [closed EXCEPT ![t] = FALSE]
    /\ UNCHANGED <<opened, content>>

\* Mutant: a path that is taken is opened all the same.
TryOpen_Shared(t, fault) ==
    LET f == job[t].file IN
    /\ job[t].at = "try"
    /\ LET ok == ~fault /\ (job[t].mode = "create" \/ content[f] # NoFile) IN
       /\ opened' = [opened EXCEPT ![f] = t]
       /\ job' = [job EXCEPT ![t].at = IF ok THEN "open" ELSE "failed"]
       /\ content' = IF ok /\ job[t].mode = "create"
                     THEN [content EXCEPT ![f] = Empty] ELSE content
       /\ closed' = [closed EXCEPT ![t] = FALSE]

\* storage_process_file_open.  A taken path makes the caller wait; otherwise the
\* File enters the table, whether the file system then opens it or not.
\* FSOM_CREATE_ALWAYS truncates, FSOM_OPEN_EXISTING needs a file.
TryOpen(t, fault) ==
    LET f == job[t].file IN
    /\ job[t].at = "try"
    /\ IF opened[f] # Nobody
       THEN /\ ~fault
            /\ job' = [job EXCEPT ![t].at = "wait"]
            /\ UNCHANGED <<opened, content, closed>>
       ELSE LET ok == ~fault /\ (job[t].mode = "create" \/ content[f] # NoFile) IN
            /\ opened' = [opened EXCEPT ![f] = t]
            /\ job' = [job EXCEPT ![t].at = IF ok THEN "open" ELSE "failed"]
            /\ content' = IF ok /\ job[t].mode = "create"
                          THEN [content EXCEPT ![f] = Empty] ELSE content
            /\ closed' = [closed EXCEPT ![t] = FALSE]

\* The wait ends with a close of any file, and the open is tried again.
CloseSeen(t) ==
    /\ job[t].at = "wait" /\ closed[t]
    /\ job' = [job EXCEPT ![t].at = "try"]
    /\ closed' = [closed EXCEPT ![t] = FALSE]
    /\ UNCHANGED <<opened, content>>

\* Mutant: the end of an open that failed is not announced.
Closed_Silent(t) ==
    /\ opened' = [opened EXCEPT ![job[t].file] = Nobody]
    /\ closed' = [u \in Threads |->
                    closed[u] \/ (job[t].at = "open" /\ job[u].at \in {"try", "wait"})]
    /\ job' = [job EXCEPT ![t] = Idle]

\* storage_process_file_close: the entry leaves the table and every subscriber is
\* told.
Closed(t) ==
    /\ opened' = [opened EXCEPT ![job[t].file] = Nobody]
    /\ closed' = [u \in Threads |-> closed[u] \/ job[u].at \in {"try", "wait"}]
    /\ job' = [job EXCEPT ![t] = Idle]

\* storage_file_close, or storage_file_free of a File whose open has failed.
CloseFile(t) ==
    /\ job[t].at \in {"open", "failed"}
    /\ Closed(t)
    /\ UNCHANGED content

\* storage_file_write and storage_file_close.  Nobody sees the file in between;
\* on a fault nothing that counts is written.
WriteAndClose(t, data, fault) ==
    /\ job[t].at = "open"
    /\ content' = IF fault THEN content ELSE [content EXCEPT ![job[t].file] = data]
    /\ Closed(t)

\* storage_process_common_remove does not wait: an open file stays.
Removable(f) == opened[f] = Nobody /\ content[f] # NoFile

RemoveFile(f, fault) ==
    /\ content' = IF Removable(f) /\ ~fault THEN [content EXCEPT ![f] = NoFile] ELSE content
    /\ UNCHANGED <<opened, job, closed>>

\* A reset of the device: the card keeps its files, nothing else survives.
StorageReset ==
    /\ opened' = [f \in Files |-> Nobody]
    /\ job' = [t \in Threads |-> Idle]
    /\ closed' = [t \in Threads |-> FALSE]
    /\ UNCHANGED content

=============================================================================
