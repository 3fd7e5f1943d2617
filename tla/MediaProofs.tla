----------------------------- MODULE MediaProofs -----------------------------
(* Proofs about Media, for every value of its constants. *)
EXTENDS Media, TLAPS

USE MediaAssumption

Pipeline == [at : Steps, owner : Owners \cup {None}, key : Uploads]

LEMMA Fields ==
    ASSUME NEW q \in Request, q # Idle
    PROVE  /\ q.at \in Working /\ q.id \in Owners /\ q.batch \subseteq Uploads
           /\ q.thumb \in Uploads \cup {None}
           /\ \A at \in Working : [q EXCEPT !.at = at] \in Request
  BY DEF Request, Idle, Working

LEMMA NotIdle ==
    ASSUME NEW q, q.at \in Working
    PROVE  q # Idle
  BY DEF Working, Idle

LEMMA AfterRemovalType ==
    ASSUME NEW q \in Request, q # Idle
    PROVE  AfterRemoval(q) \in Request /\ (AfterRemoval(q) = Idle \/ AfterRemoval(q).at = "DeleteOwner")
<1>1. Idle \in Request
  BY DEF Request
<1>2. [q EXCEPT !.at = "DeleteOwner"] \in Request /\ [q EXCEPT !.at = "DeleteOwner"].at = "DeleteOwner"
  BY Fields DEF Working, Request, Idle
<1> QED
  BY <1>1, <1>2 DEF AfterRemoval

LEMMA StepAfterType ==
    /\ StepAfter("Unused") = "Put" /\ StepAfter("Put") = "File"
    /\ StepAfter("File") = "Image" /\ StepAfter("Image") = "Done"
  BY DEF StepAfter

LEMMA AdvanceType ==
    ASSUME TypeOK, NEW u \in Uploads, NEW s \in Steps, Advance(u, s)
    PROVE  /\ up' \in [Uploads -> Pipeline]
           /\ up'[u].at = s
           /\ \A v \in Uploads : up'[v].key = up[v].key /\ up'[v].owner = up[v].owner
           /\ \A v \in Uploads \ {u} : up'[v] = up[v]
  BY DEF Advance, TypeOK, Pipeline

LEMMA StartUploadsType ==
    ASSUME TypeOK, NEW o \in Owners, NEW B \in SUBSET Uploads, StartUploads(o, B)
    PROVE  /\ up' \in [Uploads -> Pipeline]
           /\ \A v \in Uploads \ B : up'[v] = up[v]
           /\ \A v \in B : up'[v].at = "Put" /\ up'[v].owner = o
           /\ ~SameNames => \A v \in B : up'[v].key = v
<1>1. PICK key \in Namings(B) :
        up' = [u \in Uploads |->
                 IF u \in B THEN [at |-> StepAfter("Unused"), owner |-> o, key |-> key[u]]
                 ELSE up[u]]
  BY DEF StartUploads
<1>2. /\ \A v \in B : key[v] \in Uploads
      /\ ~SameNames => \A v \in B : key[v] = v
  BY DEF Namings
<1> QED
  BY <1>1, <1>2, StepAfterType DEF TypeOK, Pipeline, Steps

(***************************************************************************)
(* Types                                                                   *)
(***************************************************************************)
LEMMA TypeInit == Init => TypeOK
  BY DEF Init, TypeOK, Request, Steps, Owners, FkOwners

LEMMA GotoType ==
    ASSUME TypeOK, NEW r \in Requests, NEW q \in Request, Goto(r, q)
    PROVE  req' \in [Requests -> Request]
  BY DEF Goto, TypeOK

LEMMA UploadStepType ==
    ASSUME TypeOK, NEW u \in Uploads, UploadStep(u)
    PROVE  TypeOK'
<1>1. CASE PutObject(u)
  <2>1. up' \in [Uploads -> Pipeline]
    BY <1>1, AdvanceType, StepAfterType DEF PutObject, Steps
  <2>2. DOMAIN object' \subseteq Uploads /\ \A k \in DOMAIN object' : object'[k] \in Uploads
    BY <1>1 DEF PutObject, TypeOK
  <2> QED
    BY <1>1, <2>1, <2>2 DEF PutObject, TypeOK, Pipeline, tables
<1>2. CASE CreateFile(u)
  <2>1. up' \in [Uploads -> Pipeline]
    BY <1>2, AdvanceType, StepAfterType DEF CreateFile, Steps
  <2>2. file' = file \/ file' = file \cup {u}
    BY <1>2 DEF CreateFile
  <2> QED
    BY <1>2, <2>1, <2>2 DEF CreateFile, TypeOK, Pipeline
<1>3. CASE CreateImage(u)
  <2>1. up' \in [Uploads -> Pipeline]
    BY <1>3, AdvanceType, StepAfterType DEF CreateImage, Steps
  <2>2. image' = image \/ (image' = image \cup {u} /\ u \in file)
    BY <1>3 DEF CreateImage
  <2> QED
    BY <1>3, <2>1, <2>2 DEF CreateImage, TypeOK, Pipeline
<1>4. CASE UploadFails(u)
  <2>1. up' \in [Uploads -> Pipeline]
    BY <1>4, AdvanceType DEF UploadFails, Steps
  <2>2. failures' \in 0..MaxFailures
    BY <1>4 DEF UploadFails, Fail, TypeOK
  <2> QED
    BY <1>4, <2>1, <2>2 DEF UploadFails, TypeOK, Pipeline, tables
<1> QED
  BY <1>1, <1>2, <1>3, <1>4 DEF UploadStep

LEMMA AwaitType ==
    ASSUME TypeOK, NEW r \in Requests, NEW o \in Owners, NEW B \in SUBSET Uploads,
           NEW t \in Uploads \cup {None}, NEW then \in {"Answer", "SetThumbnail"},
           Await(r, o, B, t, then), New(o) \/ Found(o)
    PROVE  TypeOK'
<1>1. up' \in [Uploads -> Pipeline]
  BY StartUploadsType DEF Await
<1>2. [at |-> "Uploading", id |-> o, batch |-> B, thumb |-> t, then |-> then] \in Request
  BY DEF Request, Working
<1>3. req' \in [Requests -> Request]
  BY <1>2, GotoType DEF Await
<1>4. exists' \subseteq given' /\ given' \subseteq Owners /\ exists \subseteq exists'
  BY DEF New, Found, TypeOK
<1> QED
  BY <1>1, <1>3, <1>4 DEF Await, TypeOK, Pipeline

LEMMA UploadRequestType ==
    ASSUME TypeOK, NEW r \in Requests, NEW o \in Owners, UploadRequest(r, o)
    PROVE  TypeOK'
<1>1. ASSUME NEW t \in Uploads \cup {None}, CreateProductNoImages(r, o, t)
      PROVE  TypeOK'
  <2>1. {t} \ {None} \in SUBSET Uploads
    OBVIOUS
  <2>2. up' \in [Uploads -> Pipeline]
    BY <1>1, <2>1, StartUploadsType DEF CreateProductNoImages
  <2>3. exists' \subseteq given' /\ given' \subseteq Owners /\ exists \subseteq exists'
    BY <1>1 DEF CreateProductNoImages, New, TypeOK
  <2> QED
    BY <1>1, <2>2, <2>3 DEF CreateProductNoImages, TypeOK, Pipeline
<1>2. ASSUME NEW t \in Uploads \cup {None},
             UpdateThumbnail(r, o, t) \/ CreateCategory(r, o, t) \/ UpdateUserAvatar(r, o, t)
      PROVE  TypeOK'
  <2>1. \E B \in {{t}, {t} \ {None}} : Await(r, o, B, t, "SetThumbnail") /\ B \in SUBSET Uploads
    BY <1>2 DEF UpdateThumbnail, CreateCategory, UpdateUserAvatar
  <2>2. New(o) \/ Found(o)
    BY <1>2 DEF UpdateThumbnail, CreateCategory, UpdateUserAvatar
  <2> QED
    BY <2>1, <2>2, AwaitType
<1>3. ASSUME NEW B \in SUBSET Unused, AddProductImages(r, o, B)
      PROVE  TypeOK'
  BY <1>3, AwaitType DEF AddProductImages, Unused
<1>4. ASSUME NEW B \in SUBSET Unused, NEW t \in B \cup {None}, CreateProduct(r, o, B, t) \/ CreateBlog(r, o, B, t)
      PROVE  TypeOK'
  <2>1. Await(r, o, B, t, "SetThumbnail") /\ (New(o) \/ Found(o))
    BY <1>4 DEF CreateProduct, CreateBlog
  <2>2. B \in SUBSET Uploads /\ t \in Uploads \cup {None}
    BY DEF Unused
  <2> QED
    BY <2>1, <2>2, AwaitType
<1> QED
  BY <1>1, <1>2, <1>3, <1>4 DEF UploadRequest

\* A removal begins with pictures of its owner.
LEMMA RemoveRequestShape ==
    ASSUME TypeOK, NEW r \in Requests, NEW o \in Owners, RemoveRequest(r, o)
    PROVE  \E S \in SUBSET image : \E then \in {"Answer", "Count", "DeleteOwner"} :
              /\ Remove(r, o, S, then)
              /\ \A u \in S : up[u].owner = o
              /\ o \in Blogs => then = "DeleteOwner"
<1>1. ImagesOf(o) \subseteq image /\ \A u \in ImagesOf(o) : up[u].owner = o
  BY DEF ImagesOf
<1>2. o \in Blogs => o \notin Products /\ o \notin Categories
  BY DEF FkOwners
<1> QED
  BY <1>1, <1>2 DEF RemoveRequest, RemoveProductImages, RemoveAllImages, DeleteProduct, DeleteBlog, DeleteCategory

LEMMA RemoveRequestType ==
    ASSUME TypeOK, NEW r \in Requests, NEW o \in Owners, RemoveRequest(r, o)
    PROVE  TypeOK'
<1>1. PICK S \in SUBSET image, then \in {"Answer", "Count", "DeleteOwner"} : Remove(r, o, S, then)
  BY RemoveRequestShape
<1>2. S \subseteq Uploads
  BY DEF TypeOK
<1>3. [at |-> "DeleteFiles", id |-> o, batch |-> S, thumb |-> None, then |-> then] \in Request
  BY <1>2 DEF Request, Working
<1>4. req' \in [Requests -> Request]
  BY <1>1, <1>3, GotoType DEF Remove
<1> QED
  BY <1>1, <1>4 DEF Remove, TypeOK, tables

\* Deleting rows leaves the thumbnails that are foreign keys on rows.
LEMMA RowsDeleted ==
    ASSUME TypeOK, NEW S \in SUBSET Uploads
    PROVE  /\ WithoutThumbnails(S) \in [Owners -> Uploads \cup {None}]
           /\ \A o \in FkOwners : WithoutThumbnails(S)[o] # None =>
                 WithoutThumbnails(S)[o] = thumbnail[o] /\ thumbnail[o] \in image \ S /\ o \in exists
<1>1. FkOwners \subseteq Owners
  BY DEF Owners
<1> QED
  BY <1>1 DEF WithoutThumbnails, TypeOK

LEMMA DropOwnerType ==
    ASSUME TypeOK, NEW o \in Owners, NEW S \in SUBSET Uploads, DropOwner(o, S)
    PROVE  /\ thumbnail' \in [Owners -> Uploads \cup {None}]
           /\ \A p \in FkOwners : thumbnail'[p] # None => thumbnail'[p] \in image' /\ p \in exists'
           /\ exists' = exists \ {o} /\ image' \subseteq image \ S
<1> DEFINE T == S \cup ImagesOf(o)
<1>1. T \in SUBSET Uploads
  BY DEF ImagesOf, TypeOK
<1>2. /\ WithoutThumbnails(T) \in [Owners -> Uploads \cup {None}]
      /\ \A p \in FkOwners : WithoutThumbnails(T)[p] # None =>
            WithoutThumbnails(T)[p] \in image \ T /\ p \in exists
  BY <1>1, RowsDeleted
<1>3. /\ exists' = exists \ {o} /\ image' = image \ T
      /\ thumbnail' = [WithoutThumbnails(T) EXCEPT ![o] = None]
  BY DEF DropOwner
<1>4. FkOwners \subseteq Owners
  BY DEF Owners
<1> HIDE DEF T
<1>5. thumbnail' \in [Owners -> Uploads \cup {None}]
  BY <1>2, <1>3
<1>6. ASSUME NEW p \in FkOwners, thumbnail'[p] # None
      PROVE  thumbnail'[p] \in image' /\ p \in exists'
  <2>1. p # o /\ thumbnail'[p] = WithoutThumbnails(T)[p]
    BY <1>2, <1>3, <1>4, <1>6
  <2> QED
    BY <1>2, <1>3, <1>6, <2>1
<1>7. image' \subseteq image \ S
  BY <1>3 DEF T
<1> QED
  BY <1>3, <1>5, <1>6, <1>7

LEMMA RequestStepType ==
    ASSUME TypeOK, NEW r \in Requests, RequestStep(r)
    PROVE  TypeOK'
<1> DEFINE q == req[r]
<1>1. q \in Request /\ Idle \in Request
  BY DEF TypeOK, Request
<1>2. CASE UploadsDone(r) \/ UploadsFail(r) \/ FindUrl(r) \/ ThumbnailRefused(r)
  <2>1. q # Idle
    BY <1>2 DEF UploadsDone, UploadsFail, FindUrl, ThumbnailRefused, Idle
  <2>2. \E to \in Request : Goto(r, to)
    BY <1>1, <1>2, <2>1, Fields DEF UploadsDone, UploadsFail, FindUrl, ThumbnailRefused, Working
  <2>3. req' \in [Requests -> Request]
    BY <2>2, GotoType
  <2>4. UNCHANGED <<tables, object, up, failures>>
    BY <1>2 DEF UploadsDone, UploadsFail, FindUrl, ThumbnailRefused
  <2> QED
    BY <2>3, <2>4 DEF TypeOK, tables
<1>3. CASE SetThumbnail(r)
  <2>1. q # Idle
    BY <1>3 DEF SetThumbnail, Idle
  <2>2. q.id \in Owners /\ q.thumb \in Uploads \cup {None}
    BY <1>1, <2>1, Fields
  <2>3. req' \in [Requests -> Request]
    BY <1>1, <1>3, GotoType DEF SetThumbnail
  <2>4. /\ thumbnail' \in [Owners -> Uploads \cup {None}]
        /\ \A o \in FkOwners : thumbnail'[o] # None => thumbnail'[o] \in image /\ o \in exists
    <3>1. CASE Attachable(q.id, q.thumb)
      <4>1. thumbnail' = [thumbnail EXCEPT ![q.id] = q.thumb]
        BY <1>3, <3>1 DEF SetThumbnail
      <4>2. q.id \in FkOwners => q.thumb \in image /\ q.id \in exists
        BY <3>1 DEF Attachable
      <4> QED
        BY <2>2, <4>1, <4>2 DEF TypeOK, Owners
    <3>2. CASE ~Attachable(q.id, q.thumb)
      BY <1>3, <3>2 DEF SetThumbnail, TypeOK
    <3> QED
      BY <3>1, <3>2
  <2> QED
    BY <1>3, <2>3, <2>4 DEF SetThumbnail, TypeOK
<1>4. CASE DeleteFiles(r)
  <2> DEFINE S == q.batch \cap image
  <2>1. q # Idle /\ S \in SUBSET Uploads
    BY <1>1, <1>4 DEF DeleteFiles, Idle, TypeOK
  <2>2. \E to \in Request : Goto(r, to)
    <3>1. AfterRemoval(q) \in Request /\ [q EXCEPT !.at = "DeleteObjects"] \in Request
      BY <1>1, <2>1, Fields, AfterRemovalType DEF Working
    <3> QED
      BY <1>4, <3>1 DEF DeleteFiles
  <2>3. req' \in [Requests -> Request]
    BY <2>2, GotoType
  <2>4. image' = image \ S /\ file' = file \ S /\ thumbnail' = WithoutThumbnails(S)
    BY <1>4 DEF DeleteFiles, FilesWithout
  <2>5. UNCHANGED <<given, exists, ordered, object, up, failures>>
    BY <1>4 DEF DeleteFiles
  <2> HIDE DEF S
  <2>6. /\ thumbnail' \in [Owners -> Uploads \cup {None}]
        /\ \A o \in FkOwners : thumbnail'[o] # None => thumbnail'[o] \in image' /\ o \in exists
    BY <2>1, <2>4, RowsDeleted
  <2>7. image' \subseteq file' /\ file' \subseteq Uploads
    BY <2>4 DEF TypeOK
  <2> QED
    BY <2>3, <2>5, <2>6, <2>7 DEF TypeOK
<1>5. CASE DeleteFilesAndCategory(r)
  <2> DEFINE S == q.batch \cap image
  <2>1. q # Idle /\ S \in SUBSET Uploads
    BY <1>1, <1>5 DEF DeleteFilesAndCategory, Idle, TypeOK
  <2>2. q.id \in Categories /\ q.id \in Owners /\ q.id \notin Products
    BY <1>1, <1>5, <2>1, Fields DEF DeleteFilesAndCategory
  <2>3. \E to \in Request : Goto(r, to)
    <3>1. [q EXCEPT !.at = "DeleteObjects"] \in Request
      BY <1>1, <2>1, Fields DEF Working
    <3> QED
      BY <1>1, <1>5, <3>1 DEF DeleteFilesAndCategory
  <2>4. req' \in [Requests -> Request]
    BY <2>3, GotoType
  <2>5. CASE q.id \notin exists
    BY <1>5, <2>4, <2>5 DEF DeleteFilesAndCategory, TypeOK
  <2>6. CASE q.id \in exists
    <3>1. file' = file \ S /\ DropOwner(q.id, S)
      BY <1>5, <2>6 DEF DeleteFilesAndCategory, FilesWithout
    <3>2. UNCHANGED <<given, ordered, object, up, failures>>
      BY <1>5 DEF DeleteFilesAndCategory
    <3> HIDE DEF S
    <3>3. /\ thumbnail' \in [Owners -> Uploads \cup {None}]
          /\ \A p \in FkOwners : thumbnail'[p] # None => thumbnail'[p] \in image' /\ p \in exists'
          /\ exists' = exists \ {q.id} /\ image' \subseteq image \ S
      BY <2>1, <2>2, <3>1, DropOwnerType
    <3>4. image' \subseteq file' /\ file' \subseteq Uploads /\ exists' \subseteq given
      BY <3>1, <3>3 DEF TypeOK
    <3>5. ordered \subseteq exists' \cap Products
      BY <2>2, <3>3 DEF TypeOK
    <3> QED
      BY <2>4, <3>2, <3>3, <3>4, <3>5 DEF TypeOK
  <2> QED
    BY <2>5, <2>6
<1>6. CASE DeleteObjects(r)
  <2>1. q # Idle
    BY <1>6 DEF DeleteObjects, Idle
  <2>2. req' \in [Requests -> Request]
    BY <1>1, <1>6, <2>1, AfterRemovalType, GotoType DEF DeleteObjects
  <2>3. DOMAIN object' \subseteq DOMAIN object /\ \A k \in DOMAIN object' : object'[k] = object[k]
    BY <1>6 DEF DeleteObjects
  <2> QED
    BY <1>6, <2>2, <2>3 DEF DeleteObjects, TypeOK, tables
<1>7. CASE DeleteOwner(r)
  <2>1. q # Idle
    BY <1>7 DEF DeleteOwner, Idle
  <2>2. q.id \in Owners
    BY <1>1, <2>1, Fields
  <2>3. req' \in [Requests -> Request]
    BY <1>1, <1>7, GotoType DEF DeleteOwner
  <2>4. CASE q.id \notin exists \ ordered
    BY <1>7, <2>3, <2>4 DEF DeleteOwner, TypeOK
  <2>5. CASE q.id \in exists \ ordered
    <3>1. DropOwner(q.id, {}) /\ UNCHANGED <<given, ordered, file, object, up, failures>>
      BY <1>7, <2>5 DEF DeleteOwner
    <3>2. /\ thumbnail' \in [Owners -> Uploads \cup {None}]
          /\ \A p \in FkOwners : thumbnail'[p] # None => thumbnail'[p] \in image' /\ p \in exists'
          /\ exists' = exists \ {q.id} /\ image' \subseteq image
      BY <2>2, <3>1, DropOwnerType
    <3> QED
      BY <2>3, <2>5, <3>1, <3>2 DEF TypeOK
  <2> QED
    BY <2>4, <2>5
<1>8. CASE RequestFails(r)
  <2>1. req' \in [Requests -> Request]
    BY <1>1, <1>8, GotoType DEF RequestFails
  <2>2. failures' \in 0..MaxFailures
    BY <1>8 DEF RequestFails, Fail, TypeOK
  <2> QED
    BY <1>8, <2>1, <2>2 DEF RequestFails, TypeOK, tables
<1> QED
  BY <1>2, <1>3, <1>4, <1>5, <1>6, <1>7, <1>8 DEF RequestStep

LEMMA CrashType ==
    ASSUME TypeOK, Crash
    PROVE  TypeOK'
<1>1. failures' \in 0..MaxFailures
  BY DEF Crash, Fail, TypeOK
<1>2. up' \in [Uploads -> Pipeline]
  BY DEF Crash, TypeOK, Pipeline, Steps
<1>3. req' \in [Requests -> Request]
  BY DEF Crash, Request
<1> QED
  BY <1>1, <1>2, <1>3 DEF Crash, TypeOK, tables, Pipeline

LEMMA OrderType ==
    ASSUME TypeOK, NEW o \in Products, OrderProduct(o)
    PROVE  TypeOK'
  BY DEF OrderProduct, TypeOK

LEMMA TypeNext == TypeOK /\ [Next]_vars => TypeOK'
<1> SUFFICES ASSUME TypeOK, [Next]_vars PROVE TypeOK'
  OBVIOUS
<1>1. CASE UNCHANGED vars
  BY <1>1 DEF vars, tables, TypeOK
<1>2. CASE Next
  BY <1>2, UploadStepType, RequestStepType, UploadRequestType, RemoveRequestType, OrderType, CrashType
  DEF Next
<1> QED
  BY <1>1, <1>2

\* Foreign keys hold and every handler stays within its steps: the type
\* invariant of Media, for any owners, uploads, handlers and failures.
THEOREM MediaTypeCorrect == Spec => []TypeOK
  BY TypeInit, TypeNext, PTL DEF Spec

(***************************************************************************)
(* Pictures that show                                                      *)
(*                                                                         *)
(* The row of a picture is made after its object and never again once it   *)
(* was deleted, and an object goes only after the row.                     *)
(***************************************************************************)
Stored(u) == u \in DOMAIN object /\ object[u] = u

OwnKeys   == \A u \in Uploads : up[u].key = u
Pipelines == \A u \in Uploads :
    /\ up[u].at \in {"File", "Image"} => Stored(u)
    /\ u \in image => up[u].at = "Done" /\ Stored(u)
Removals  == \A r \in Requests :
    /\ req[r].at \in {"DeleteFiles", "DeleteObjects"} =>
          \A u \in req[r].batch : up[u].at = "Done"
    /\ req[r].at = "DeleteObjects" => req[r].batch \cap image = {}

Sound == TypeOK /\ OwnKeys /\ Pipelines /\ Removals

LEMMA SoundShows == Sound => PicturesShow
  BY DEF Sound, TypeOK, OwnKeys, Pipelines, Stored, PicturesShow

LEMMA SoundInit == Init => Sound
<1> SUFFICES ASSUME Init PROVE Sound
  OBVIOUS
<1>1. OwnKeys
  BY DEF Init, OwnKeys
<1>2. Pipelines
  BY DEF Init, Pipelines
<1>3. Removals
  BY DEF Init, Removals, Idle
<1> QED
  BY <1>1, <1>2, <1>3, TypeInit DEF Sound

LEMMA UploadStepSound ==
    ASSUME Sound, NEW u \in Uploads, UploadStep(u)
    PROVE  (OwnKeys /\ Pipelines /\ Removals)'
<1> USE StepAfterType DEF Steps
<1>1. TypeOK /\ OwnKeys /\ Pipelines /\ Removals
  BY DEF Sound
<1>2. up[u].at \in {"Put", "File", "Image"} /\ UNCHANGED req
  BY DEF UploadStep, PutObject, CreateFile, CreateImage, UploadFails, InProgress
<1>3. \E s \in Steps : Advance(u, s)
  BY DEF UploadStep, PutObject, CreateFile, CreateImage, UploadFails
<1>4. /\ \A v \in Uploads : up'[v].key = up[v].key
      /\ \A v \in Uploads \ {u} : up'[v] = up[v]
  BY <1>1, <1>3, AdvanceType
<1>5. OwnKeys'
  BY <1>1, <1>4 DEF OwnKeys
<1>6. u \notin image /\ \A r \in Requests :
        req[r].at \in {"DeleteFiles", "DeleteObjects"} => u \notin req[r].batch
  BY <1>1, <1>2 DEF Pipelines, Removals
<1>7. image' = image \/ (image' = image \cup {u})
  BY DEF UploadStep, PutObject, CreateFile, CreateImage, UploadFails, tables
<1>8. Removals'
  <2> SUFFICES ASSUME NEW r \in Requests, req[r].at \in {"DeleteFiles", "DeleteObjects"}
               PROVE  /\ \A v \in req[r].batch : up'[v].at = "Done"
                      /\ req[r].at = "DeleteObjects" => req[r].batch \cap image' = {}
    BY <1>2 DEF Removals
  <2>1. req[r] \in Request /\ req[r] # Idle
    BY <1>1 DEF TypeOK, Idle
  <2>2. req[r].batch \subseteq Uploads
    BY <2>1, Fields
  <2> QED
    BY <1>1, <1>4, <1>6, <1>7, <2>2 DEF Removals
<1>9. Pipelines'
  <2>1. CASE PutObject(u)
    <3>1. up'[u].at = "File" /\ UNCHANGED image
      BY <1>1, <2>1, AdvanceType DEF PutObject, tables
    <3>2. /\ DOMAIN object' = DOMAIN object \cup {u} /\ object'[u] = u
          /\ \A v \in DOMAIN object \ {u} : object'[v] = object[v]
      BY <1>1, <2>1 DEF PutObject, OwnKeys
    <3> QED
      BY <1>1, <1>4, <1>6, <3>1, <3>2 DEF Pipelines, Stored
  <2>2. CASE CreateFile(u)
    <3>1. up'[u].at \in {"Image", "Failed"} /\ up[u].at = "File" /\ UNCHANGED <<image, object>>
      BY <1>1, <2>2, AdvanceType DEF CreateFile
    <3> QED
      BY <1>1, <1>4, <1>6, <3>1 DEF Pipelines, Stored
  <2>3. CASE CreateImage(u)
    <3>1. /\ up[u].at = "Image" /\ UNCHANGED object
          /\ \/ up'[u].at = "Done" /\ image' = image \cup {u}
             \/ up'[u].at = "Failed" /\ UNCHANGED image
      BY <1>1, <2>3, AdvanceType DEF CreateImage
    <3> QED
      BY <1>1, <1>4, <1>6, <3>1 DEF Pipelines, Stored
  <2>4. CASE UploadFails(u)
    <3>1. up'[u].at = "Failed" /\ UNCHANGED <<image, object>>
      BY <1>1, <2>4, AdvanceType DEF UploadFails, tables
    <3> QED
      BY <1>1, <1>4, <1>6, <3>1 DEF Pipelines, Stored
  <2> QED
    BY <2>1, <2>2, <2>3, <2>4 DEF UploadStep
<1> QED
  BY <1>5, <1>8, <1>9

\* A handler that starts uploads takes unused ones.
LEMMA StartedSound ==
    ASSUME Sound, ~SameNames, NEW o \in Owners, NEW B \in SUBSET Unused, StartUploads(o, B),
           UNCHANGED <<image, object>>, NEW r \in Requests, NEW q, q.at = "Uploading",
           Goto(r, q) \/ UNCHANGED req
    PROVE  (OwnKeys /\ Pipelines /\ Removals)'
<1>1. TypeOK /\ OwnKeys /\ Pipelines /\ Removals
  BY DEF Sound
<1>2. B \in SUBSET Uploads /\ \A v \in B : up[v].at = "Unused"
  BY DEF Unused
<1>3. /\ \A v \in Uploads \ B : up'[v] = up[v]
      /\ \A v \in B : up'[v].at = "Put" /\ up'[v].key = v
  BY <1>1, <1>2, StartUploadsType
<1>4. OwnKeys'
  BY <1>1, <1>3 DEF OwnKeys
<1>5. Pipelines'
  BY <1>1, <1>2, <1>3 DEF Pipelines, Stored
<1>6. Removals'
  <2> SUFFICES ASSUME NEW s \in Requests, req'[s].at \in {"DeleteFiles", "DeleteObjects"}
               PROVE  /\ \A v \in req'[s].batch : up'[v].at = "Done"
                      /\ req'[s].at = "DeleteObjects" => req'[s].batch \cap image' = {}
    BY DEF Removals
  <2>1. req'[s] = req[s]
    BY <1>1 DEF Goto, TypeOK
  <2>2. req[s] \in Request /\ req[s] # Idle
    BY <1>1, <2>1 DEF TypeOK, Idle
  <2>3. req[s].batch \subseteq Uploads
    BY <2>2, Fields
  <2> QED
    BY <1>1, <1>2, <1>3, <2>1, <2>3 DEF Removals
<1> QED
  BY <1>4, <1>5, <1>6

LEMMA UploadRequestSound ==
    ASSUME Sound, ~SameNames, NEW r \in Requests, NEW o \in Owners, UploadRequest(r, o)
    PROVE  (OwnKeys /\ Pipelines /\ Removals)'
<1>1. ASSUME NEW t \in Uploads \cup {None}, CreateProductNoImages(r, o, t)
      PROVE  (OwnKeys /\ Pipelines /\ Removals)'
  <2>1. {t} \ {None} \in SUBSET Unused
    BY <1>1 DEF CreateProductNoImages
  <2>2. StartUploads(o, {t} \ {None}) /\ UNCHANGED <<image, object, req>>
    BY <1>1 DEF CreateProductNoImages
  <2>3. [at |-> "Uploading"].at = "Uploading"
    OBVIOUS
  <2> QED
    BY <2>1, <2>2, <2>3, StartedSound
<1>2. ASSUME NEW B \in SUBSET Uploads, NEW t, NEW then, Await(r, o, B, t, then)
      PROVE  (OwnKeys /\ Pipelines /\ Removals)'
  <2> DEFINE q == [at |-> "Uploading", id |-> o, batch |-> B, thumb |-> t, then |-> then]
  <2>1. B \in SUBSET Unused /\ StartUploads(o, B) /\ Goto(r, q) /\ UNCHANGED <<image, object>>
    BY <1>2 DEF Await
  <2>2. q.at = "Uploading"
    OBVIOUS
  <2> HIDE DEF q
  <2> QED
    BY <2>1, <2>2, StartedSound
<1>3. \/ \E t \in Uploads \cup {None} : CreateProductNoImages(r, o, t)
      \/ \E B \in SUBSET Uploads : \E t, then : Await(r, o, B, t, then)
  <2>1. Unused \subseteq Uploads
    BY DEF Unused
  <2>2. \A t \in Uploads \cup {None} : {t} \ {None} \in SUBSET Uploads
    OBVIOUS
  <2>3. \A t \in Uploads \cup {None} : t # None => {t} \in SUBSET Uploads
    OBVIOUS
  <2> QED
    BY <2>1, <2>2, <2>3 DEF UploadRequest, UpdateThumbnail, CreateCategory, UpdateUserAvatar,
       AddProductImages, CreateProduct, CreateBlog
<1> QED
  BY <1>1, <1>2, <1>3

\* A handler that goes on to a point where it removes nothing.
LEMMA GoneOnSound ==
    ASSUME Sound, NEW r \in Requests, NEW q, q.at \notin {"DeleteFiles", "DeleteObjects"},
           Goto(r, q), UNCHANGED up,
           image' \subseteq image,
           \A u \in image' : Stored(u) => Stored(u)',
           \A u \in Uploads : up[u].at # "Done" /\ Stored(u) => Stored(u)'
    PROVE  (OwnKeys /\ Pipelines /\ Removals)'
<1>1. TypeOK /\ OwnKeys /\ Pipelines /\ Removals
  BY DEF Sound
<1>2. OwnKeys' /\ Pipelines'
  BY <1>1 DEF OwnKeys, Pipelines
<1>3. Removals'
  BY <1>1 DEF Removals, Goto, TypeOK
<1> QED
  BY <1>2, <1>3

LEMMA RemoveRequestSound ==
    ASSUME Sound, NEW r \in Requests, NEW o \in Owners, RemoveRequest(r, o)
    PROVE  (OwnKeys /\ Pipelines /\ Removals)'
<1>1. TypeOK /\ OwnKeys /\ Pipelines /\ Removals
  BY DEF Sound
<1>2. PICK S \in SUBSET image, then \in {"Answer", "Count", "DeleteOwner"} : Remove(r, o, S, then)
  BY <1>1, RemoveRequestShape
<1> DEFINE q == [at |-> "DeleteFiles", id |-> o, batch |-> S, thumb |-> None, then |-> then]
<1>3. Goto(r, q) /\ UNCHANGED <<image, object, up>>
  BY <1>2 DEF Remove, tables
<1>4. q.at = "DeleteFiles" /\ q.batch = S
  OBVIOUS
<1> HIDE DEF q
<1>5. \A u \in S : up[u].at = "Done"
  BY <1>1 DEF Pipelines, TypeOK
<1>6. Removals'
  BY <1>1, <1>3, <1>4, <1>5 DEF Removals, Goto, TypeOK
<1> QED
  BY <1>1, <1>3, <1>6 DEF OwnKeys, Pipelines, Stored

LEMMA RequestStepSound ==
    ASSUME Sound, NEW r \in Requests, RequestStep(r)
    PROVE  (OwnKeys /\ Pipelines /\ Removals)'
<1> DEFINE q == req[r]
<1>1. TypeOK /\ OwnKeys /\ Pipelines /\ Removals
  BY DEF Sound
<1>2. q \in Request /\ Idle.at = "Idle"
  BY <1>1 DEF TypeOK, Idle
<1>3. CASE UploadsDone(r) \/ UploadsFail(r) \/ FindUrl(r) \/ SetThumbnail(r) \/ ThumbnailRefused(r) \/ RequestFails(r)
  <2>1. UNCHANGED <<image, object, up>>
    BY <1>3 DEF UploadsDone, UploadsFail, FindUrl, SetThumbnail, ThumbnailRefused, RequestFails, tables
  <2>2. \E to : Goto(r, to) /\ to.at \notin {"DeleteFiles", "DeleteObjects"}
    <3>1. CASE \E at \in {"FindUrl", "SetThumbnail"} : Goto(r, [q EXCEPT !.at = at]) /\ q.at \in Working
      <4>1. \A at \in Working : [q EXCEPT !.at = at].at = at
        BY <1>2, <3>1, NotIdle DEF Request, Idle
      <4> QED
        BY <3>1, <4>1 DEF Working
    <3>2. CASE Goto(r, Idle)
      BY <1>2, <3>2
    <3> QED
      BY <1>3, <3>1, <3>2 DEF UploadsDone, UploadsFail, FindUrl, SetThumbnail, ThumbnailRefused, RequestFails, Working
  <2> QED
    BY <2>1, <2>2, GoneOnSound DEF Stored
<1>4. ASSUME q.at = "DeleteFiles", NEW to, Goto(r, to), UNCHANGED <<object, up>>,
             image' \subseteq image \ q.batch,
             to = [q EXCEPT !.at = "DeleteObjects"]
      PROVE  (OwnKeys /\ Pipelines /\ Removals)'
  <2>1. q # Idle /\ q.batch \subseteq Uploads
    BY <1>2, <1>4, Fields DEF Idle
  <2>2. to.at = "DeleteObjects" /\ to.batch = q.batch
    BY <1>2, <1>4, <2>1 DEF Request
  <2>3. OwnKeys' /\ Pipelines'
    BY <1>1, <1>4 DEF OwnKeys, Pipelines, Stored
  <2>4. Removals'
    <3> SUFFICES ASSUME NEW s \in Requests, req'[s].at \in {"DeleteFiles", "DeleteObjects"}
                 PROVE  /\ \A v \in req'[s].batch : up[v].at = "Done"
                        /\ req'[s].at = "DeleteObjects" => req'[s].batch \cap image' = {}
      BY <1>4 DEF Removals
    <3>1. CASE s = r
      <4>1. req'[s] = to
        BY <1>1, <1>4, <3>1 DEF Goto, TypeOK
      <4> QED
        BY <1>1, <1>4, <2>2, <4>1 DEF Removals
    <3>2. CASE s # r
      <4>1. req'[s] = req[s]
        BY <1>1, <1>4, <3>2 DEF Goto, TypeOK
      <4> QED
        BY <1>1, <1>4, <4>1 DEF Removals
    <3> QED
      BY <3>1, <3>2
  <2> QED
    BY <2>3, <2>4
<1>5. CASE DeleteFiles(r)
  <2>1. q # Idle /\ q.at = "DeleteFiles"
    BY <1>5 DEF DeleteFiles, Idle
  <2>2. image' \subseteq image \ q.batch /\ UNCHANGED <<object, up>>
    BY <1>5 DEF DeleteFiles
  <2>3. CASE Goto(r, [q EXCEPT !.at = "DeleteObjects"])
    BY <1>4, <2>1, <2>2, <2>3
  <2>4. CASE Goto(r, AfterRemoval(q))
    <3>1. AfterRemoval(q).at \notin {"DeleteFiles", "DeleteObjects"}
      BY <1>2, <2>1, AfterRemovalType
    <3> QED
      BY <2>2, <2>4, <3>1, GoneOnSound DEF Stored
  <2> QED
    BY <1>5, <2>3, <2>4 DEF DeleteFiles
<1>6. CASE DeleteFilesAndCategory(r)
  <2>1. q # Idle /\ q.at = "DeleteFiles" /\ UNCHANGED <<object, up>>
    BY <1>6 DEF DeleteFilesAndCategory, Idle
  <2>2. CASE q.id \in exists
    <3>1. image' \subseteq image \ q.batch
      BY <1>6, <2>2 DEF DeleteFilesAndCategory, DropOwner
    <3>2. CASE Goto(r, [q EXCEPT !.at = "DeleteObjects"])
      BY <1>4, <2>1, <3>1, <3>2
    <3>3. CASE Goto(r, Idle)
      BY <1>2, <2>1, <3>1, <3>3, GoneOnSound DEF Stored
    <3> QED
      BY <1>6, <2>2, <3>2, <3>3 DEF DeleteFilesAndCategory
  <2>3. CASE q.id \notin exists
    <3>1. Goto(r, Idle) /\ UNCHANGED image
      BY <1>6, <2>3 DEF DeleteFilesAndCategory
    <3> QED
      BY <1>2, <2>1, <3>1, GoneOnSound DEF Stored
  <2> QED
    BY <2>2, <2>3
<1>7. CASE DeleteObjects(r)
  <2>1. q # Idle /\ q.at = "DeleteObjects" /\ Goto(r, AfterRemoval(q)) /\ UNCHANGED <<image, up>>
    BY <1>7 DEF DeleteObjects, Idle, tables
  <2>2. q.batch \subseteq Uploads
    BY <1>2, <2>1, Fields
  <2>3. KeysOf(q.batch) = q.batch
    BY <1>1, <2>2 DEF KeysOf, OwnKeys
  <2>4. object' = [k \in DOMAIN object \ q.batch |-> object[k]]
    BY <1>7, <2>3 DEF DeleteObjects
  <2>5. \A u \in q.batch : up[u].at = "Done" /\ u \notin image
    BY <1>1, <2>1 DEF Removals
  <2>6. \A u \in Uploads \ q.batch : Stored(u) => Stored(u)'
    BY <2>4 DEF Stored
  <2>7. AfterRemoval(q).at \notin {"DeleteFiles", "DeleteObjects"}
    BY <1>2, <2>1, AfterRemovalType
  <2>8. image \subseteq Uploads
    BY <1>1 DEF TypeOK
  <2> QED
    BY <2>1, <2>5, <2>6, <2>7, <2>8, GoneOnSound
<1>8. CASE DeleteOwner(r)
  <2>1. Goto(r, Idle) /\ image' \subseteq image /\ UNCHANGED <<object, up>>
    BY <1>8 DEF DeleteOwner, DropOwner
  <2> QED
    BY <1>2, <2>1, GoneOnSound DEF Stored
<1> QED
  BY <1>3, <1>5, <1>6, <1>7, <1>8 DEF RequestStep

LEMMA CrashSound ==
    ASSUME Sound, Crash
    PROVE  (OwnKeys /\ Pipelines /\ Removals)'
<1>1. TypeOK /\ OwnKeys /\ Pipelines /\ Removals
  BY DEF Sound
<1>2. UNCHANGED <<image, object>> /\ req' = [r \in Requests |-> Idle]
  BY DEF Crash, tables
<1>3. \A u \in Uploads : up'[u].key = up[u].key /\ (up'[u].at = up[u].at \/ up'[u].at = "Failed")
  BY <1>1 DEF Crash, TypeOK
<1>4. \A u \in image : u \in Uploads /\ u \notin InProgress
  BY <1>1 DEF TypeOK, Pipelines, InProgress
<1>5. \A u \in image : up'[u].at = up[u].at
  BY <1>1, <1>4 DEF Crash, TypeOK
<1>6. OwnKeys' /\ Pipelines'
  BY <1>1, <1>2, <1>3, <1>5 DEF OwnKeys, Pipelines, Stored
<1>7. Removals'
  BY <1>2 DEF Removals, Idle
<1> QED
  BY <1>6, <1>7

LEMMA SoundNext == ~SameNames /\ Sound /\ [Next]_vars => Sound'
<1> SUFFICES ASSUME ~SameNames, Sound, [Next]_vars PROVE Sound'
  OBVIOUS
<1>1. TypeOK'
  BY TypeNext DEF Sound
<1>2. CASE UNCHANGED vars
  BY <1>1, <1>2 DEF vars, tables, Sound, OwnKeys, Pipelines, Removals, Stored
<1>3. ASSUME NEW o \in Products, OrderProduct(o) PROVE Sound'
  BY <1>1, <1>3 DEF OrderProduct, Sound, OwnKeys, Pipelines, Removals, Stored
<1>4. CASE Next
  BY <1>1, <1>3, <1>4, UploadStepSound, RequestStepSound, UploadRequestSound, RemoveRequestSound, CrashSound
  DEF Next, Sound
<1> QED
  BY <1>2, <1>4

\* While the files of a request have different names, no interleaving of
\* uploads, removals, failures and crashes breaks a picture.
THEOREM PicturesSafe ==
    ASSUME ~SameNames
    PROVE  Spec => []PicturesShow
  BY SoundInit, SoundNext, SoundShows, PTL DEF Spec

-----------------------------------------------------------------------------
(* Nothing is forgotten while nothing fails *)

LEMMA QuietStep ==
    ASSUME TypeOK, Next, failures' = 0
    PROVE  /\ failures = 0 /\ ~Crash
           /\ \A u \in Uploads : ~UploadFails(u)
           /\ \A r \in Requests : ~RequestFails(r)
<1>1. failures \in Nat
  BY DEF TypeOK
<1>2. ~Fail
  BY <1>1 DEF Fail
<1>3. ~Crash /\ (\A u \in Uploads : ~UploadFails(u)) /\ (\A r \in Requests : ~RequestFails(r))
  BY <1>2 DEF Crash, UploadFails, RequestFails
<1>4. \A u \in Uploads : UploadStep(u) => UNCHANGED failures
  BY <1>3 DEF UploadStep, PutObject, CreateFile, CreateImage
<1>5. ASSUME NEW r \in Requests, RequestStep(r)
      PROVE  UNCHANGED failures
  <2>1. CASE UploadsDone(r) \/ UploadsFail(r) \/ FindUrl(r) \/ SetThumbnail(r) \/ ThumbnailRefused(r)
    BY <2>1 DEF UploadsDone, UploadsFail, FindUrl, SetThumbnail, ThumbnailRefused
  <2>2. CASE DeleteFiles(r) \/ DeleteFilesAndCategory(r) \/ DeleteObjects(r) \/ DeleteOwner(r)
    BY <2>2 DEF DeleteFiles, DeleteFilesAndCategory, DeleteObjects, DeleteOwner
  <2> QED
    BY <1>3, <1>5, <2>1, <2>2 DEF RequestStep
<1>6. ASSUME NEW r \in Requests, NEW o \in Owners, UploadRequest(r, o)
      PROVE  UNCHANGED failures
  <2>1. (\E t : CreateProductNoImages(r, o, t)) \/ (\E B, t, then : Await(r, o, B, t, then))
    BY <1>6 DEF UploadRequest, UpdateThumbnail, CreateCategory, UpdateUserAvatar, AddProductImages,
       CreateProduct, CreateBlog
  <2> QED
    BY <2>1 DEF CreateProductNoImages, Await
<1>7. \A r \in Requests, o \in Owners : RemoveRequest(r, o) => UNCHANGED failures
  BY DEF RemoveRequest, RemoveProductImages, RemoveAllImages, DeleteProduct, DeleteBlog, DeleteCategory, Remove
<1>8. UNCHANGED failures
  BY <1>3, <1>4, <1>5, <1>6, <1>7 DEF Next, OrderProduct
<1> QED
  BY <1>3, <1>8

OwnObjects == \A k \in DOMAIN object : object[k] = k

\* A row in uploaded_files is of a pipeline that made it, and owners of pipelines were given ids.
RowsOfPipelines == \A u \in Uploads :
    /\ u \in file => up[u].at \in {"Image", "Done", "Failed"}
    /\ up[u].at = "Image" => u \in file
    /\ up[u].at # "Unused" => up[u].owner \in given

Deleted(u) == \E r \in Requests : req[r].at = "DeleteObjects" /\ u \in req[r].batch
Accounted  == \A u \in DOMAIN object : u \in file \/ up[u].at = "File" \/ Deleted(u)
Strays     == \A u \in file \ image : up[u].at = "Image" \/ up[u].owner \notin exists

FilesKept == OwnObjects /\ RowsOfPipelines /\ Accounted /\ Strays

LEMMA FilesInit == Init => FilesKept
  BY DEF Init, FilesKept, OwnObjects, RowsOfPipelines, Accounted, Strays

LEMMA UploadStepKeepsFiles ==
    ASSUME Sound, FilesKept, NEW u \in Uploads, UploadStep(u), ~UploadFails(u)
    PROVE  FilesKept'
<1> USE StepAfterType DEF Steps
<1>1. /\ TypeOK /\ OwnKeys /\ file \subseteq Uploads /\ DOMAIN object \subseteq Uploads
      /\ OwnObjects /\ RowsOfPipelines /\ Accounted /\ Strays
  BY DEF Sound, TypeOK, FilesKept
<1>2. UNCHANGED <<given, exists, req>>
  BY DEF UploadStep, PutObject, CreateFile, CreateImage, tables
<1>3. PICK s \in Steps : Advance(u, s)
  BY DEF UploadStep, PutObject, CreateFile, CreateImage
<1>4. /\ \A v \in Uploads : up'[v].key = up[v].key /\ up'[v].owner = up[v].owner
      /\ \A v \in Uploads \ {u} : up'[v] = up[v]
  BY <1>1, <1>3, AdvanceType
<1>5. \A v : Deleted(v)' = Deleted(v)
  BY <1>2 DEF Deleted
<1>6. CASE PutObject(u)
  <2>1. up[u].at = "Put" /\ up'[u].at = "File" /\ UNCHANGED <<file, image>>
    BY <1>1, <1>6, AdvanceType DEF PutObject, tables
  <2>2. /\ DOMAIN object' = DOMAIN object \cup {u} /\ object'[u] = u
        /\ \A v \in DOMAIN object \ {u} : object'[v] = object[v]
    BY <1>1, <1>6 DEF PutObject, OwnKeys
  <2>3. u \notin file
    BY <1>1, <2>1 DEF RowsOfPipelines
  <2>4. OwnObjects' /\ RowsOfPipelines'
    BY <1>1, <1>2, <1>4, <2>1, <2>2, <2>3 DEF OwnObjects, RowsOfPipelines
  <2>5. Accounted' /\ Strays'
    BY <1>1, <1>2, <1>4, <1>5, <2>1, <2>2, <2>3 DEF Accounted, Strays
  <2> QED
    BY <2>4, <2>5 DEF FilesKept
<1>7. CASE CreateFile(u)
  <2>1. up[u].at = "File" /\ UNCHANGED <<image, object>>
    BY <1>7 DEF CreateFile
  <2>2. u \notin file
    BY <1>1, <2>1 DEF RowsOfPipelines
  <2>3. ~\E v \in file : up[v].key = up[u].key
    BY <1>1, <2>2 DEF OwnKeys
  <2>4. file' = file \cup {u} /\ up'[u].at = "Image"
    BY <1>1, <1>7, <2>3, AdvanceType DEF CreateFile
  <2>5. OwnObjects' /\ RowsOfPipelines'
    BY <1>1, <1>2, <1>4, <2>1, <2>4 DEF OwnObjects, RowsOfPipelines
  <2>6. Accounted' /\ Strays'
    BY <1>1, <1>2, <1>4, <1>5, <2>1, <2>4 DEF Accounted, Strays
  <2> QED
    BY <2>5, <2>6 DEF FilesKept
<1>8. CASE CreateImage(u)
  <2>1. up[u].at = "Image" /\ UNCHANGED <<file, object>>
    BY <1>8 DEF CreateImage
  <2>2. u \in file
    BY <1>1, <2>1 DEF RowsOfPipelines
  <2>3. \/ up'[u].at = "Done" /\ image' = image \cup {u}
        \/ up'[u].at = "Failed" /\ UNCHANGED image /\ up[u].owner \notin exists
    BY <1>1, <1>8, <2>2, AdvanceType DEF CreateImage
  <2>4. OwnObjects' /\ RowsOfPipelines'
    BY <1>1, <1>2, <1>4, <2>1, <2>2, <2>3 DEF OwnObjects, RowsOfPipelines
  <2>5. Accounted' /\ Strays'
    BY <1>1, <1>2, <1>4, <1>5, <2>1, <2>2, <2>3 DEF Accounted, Strays
  <2> QED
    BY <2>4, <2>5 DEF FilesKept
<1> QED
  BY <1>6, <1>7, <1>8 DEF UploadStep

\* What a handler that starts uploads does to the pipelines, its owner and req.
Starts(r, o, B) ==
    /\ B \subseteq Unused /\ StartUploads(o, B) /\ (New(o) \/ Found(o))
    /\ UNCHANGED <<file, image, thumbnail, object>>
    /\ \/ UNCHANGED req
       \/ \E t \in B \cup {None}, then \in {"Answer", "SetThumbnail"} :
             /\ req[r] = Idle
             /\ Goto(r, [at |-> "Uploading", id |-> o, batch |-> B, thumb |-> t, then |-> then])

LEMMA UploadRequestStarts ==
    ASSUME NEW r \in Requests, NEW o \in Owners, UploadRequest(r, o)
    PROVE  \E B \in SUBSET Uploads : Starts(r, o, B)
<1>1. Unused \subseteq Uploads
  BY DEF Unused
<1>2. ASSUME NEW t \in Uploads \cup {None}, CreateProductNoImages(r, o, t)
      PROVE  Starts(r, o, {t} \ {None}) /\ {t} \ {None} \in SUBSET Uploads
  BY <1>2 DEF CreateProductNoImages, Starts
<1>3. ASSUME NEW B, NEW t \in B \cup {None}, NEW then \in {"Answer", "SetThumbnail"},
             Await(r, o, B, t, then), New(o) \/ Found(o)
      PROVE  Starts(r, o, B) /\ B \in SUBSET Uploads
  BY <1>1, <1>3 DEF Await, Starts
<1>4. ASSUME NEW t \in Uploads \cup {None},
             UpdateThumbnail(r, o, t) \/ CreateCategory(r, o, t) \/ UpdateUserAvatar(r, o, t)
      PROVE  \E B \in {{t}, {t} \ {None}} : t \in B \cup {None} /\ Await(r, o, B, t, "SetThumbnail")
                /\ (New(o) \/ Found(o))
  BY <1>4 DEF UpdateThumbnail, CreateCategory, UpdateUserAvatar
<1>5. ASSUME NEW B, NEW t \in B \cup {None}, CreateProduct(r, o, B, t) \/ CreateBlog(r, o, B, t)
      PROVE  Await(r, o, B, t, "SetThumbnail") /\ New(o)
  BY <1>5 DEF CreateProduct, CreateBlog
<1>6. ASSUME NEW B, AddProductImages(r, o, B)
      PROVE  Await(r, o, B, None, "Answer") /\ Found(o)
  BY <1>6 DEF AddProductImages
<1> QED
  BY <1>2, <1>3, <1>4, <1>5, <1>6 DEF UploadRequest

LEMMA StartsKeepFiles ==
    ASSUME Sound, FilesKept, NEW r \in Requests, NEW o \in Owners, NEW B \in SUBSET Uploads, Starts(r, o, B)
    PROVE  FilesKept'
<1>1. /\ TypeOK /\ file \subseteq Uploads /\ DOMAIN object \subseteq Uploads
      /\ OwnObjects /\ RowsOfPipelines /\ Accounted /\ Strays
  BY DEF Sound, TypeOK, FilesKept
<1>2. \A v \in B : up[v].at = "Unused"
  BY DEF Starts, Unused
<1>3. /\ \A v \in Uploads \ B : up'[v] = up[v]
      /\ \A v \in B : up'[v].at = "Put" /\ up'[v].owner = o
  BY <1>1, StartUploadsType DEF Starts
<1>4. UNCHANGED <<file, image, object>>
  BY DEF Starts
<1>5. /\ given \subseteq given' /\ o \in given'
      /\ \A p \in given : p \in exists' => p \in exists
  BY <1>1 DEF Starts, New, Found, TypeOK
<1>6. ASSUME NEW v, Deleted(v)
      PROVE  Deleted(v)'
  <2>1. PICK s \in Requests : req[s].at = "DeleteObjects" /\ v \in req[s].batch
    BY <1>6 DEF Deleted
  <2>2. req'[s] = req[s]
    BY <1>1, <2>1 DEF Starts, Goto, TypeOK, Idle
  <2> QED
    BY <2>1, <2>2 DEF Deleted
<1>7. \A v \in file : v \notin B
  BY <1>1, <1>2 DEF RowsOfPipelines
<1>8. OwnObjects' /\ RowsOfPipelines'
  BY <1>1, <1>3, <1>4, <1>5, <1>7 DEF OwnObjects, RowsOfPipelines
<1>9. Accounted'
  BY <1>1, <1>2, <1>3, <1>4, <1>6 DEF Accounted
<1>10. Strays'
  <2> SUFFICES ASSUME NEW v \in file \ image, up[v].at # "Image"
               PROVE  up[v].owner \notin exists'
    BY <1>1, <1>3, <1>4, <1>7 DEF Strays
  <2>1. up[v].owner \notin exists /\ up[v].owner \in given
    BY <1>1 DEF Strays, RowsOfPipelines
  <2> QED
    BY <1>5, <2>1
<1> QED
  BY <1>8, <1>9, <1>10 DEF FilesKept

\* A handler deletes the rows S of files, with them and their owner those of the pictures T.
LEMMA RowsGoneKeepFiles ==
    ASSUME Sound, FilesKept, NEW r \in Requests, NEW to, Goto(r, to), req[r].at # "DeleteObjects",
           UNCHANGED <<up, object, given>>, exists' \subseteq exists,
           NEW S \in SUBSET image, NEW T \in SUBSET image, S \subseteq T,
           file' = file \ S, image' = image \ T,
           \A u \in T : u \in S \/ up[u].owner \notin exists',
           S # {} => to.at = "DeleteObjects" /\ S \subseteq to.batch
    PROVE  FilesKept'
<1>1. /\ TypeOK /\ Pipelines /\ image \subseteq Uploads /\ file \subseteq Uploads
      /\ DOMAIN object \subseteq Uploads /\ OwnObjects /\ RowsOfPipelines /\ Accounted /\ Strays
  BY DEF Sound, TypeOK, FilesKept
<1>2. \A s \in Requests : req'[s] = IF s = r THEN to ELSE req[s]
  BY <1>1 DEF Goto, TypeOK
<1>3. \A v : Deleted(v) \/ v \in S => Deleted(v)'
  BY <1>2 DEF Deleted
<1>4. \A u \in S : up[u].at = "Done"
  BY <1>1 DEF Pipelines
<1>5. OwnObjects' /\ RowsOfPipelines'
  BY <1>1, <1>4 DEF OwnObjects, RowsOfPipelines
<1>6. Accounted'
  BY <1>1, <1>3 DEF Accounted
<1>7. Strays'
  BY <1>1 DEF Strays
<1> QED
  BY <1>5, <1>6, <1>7 DEF FilesKept

LEMMA RequestStepKeepsFiles ==
    ASSUME Sound, FilesKept, NEW r \in Requests, RequestStep(r), ~RequestFails(r)
    PROVE  FilesKept'
<1> DEFINE q == req[r]
           S == q.batch \cap image
<1>1. TypeOK /\ OwnKeys /\ Removals /\ q \in Request /\ S \in SUBSET image
  BY DEF Sound, TypeOK
<1>2. CASE UploadsDone(r) \/ UploadsFail(r) \/ FindUrl(r) \/ SetThumbnail(r) \/ ThumbnailRefused(r)
  <2>1. /\ \E to : Goto(r, to)
        /\ UNCHANGED <<up, object, given, exists, file, image>>
    BY <1>2 DEF UploadsDone, UploadsFail, FindUrl, SetThumbnail, ThumbnailRefused, tables
  <2>2. q.at # "DeleteObjects"
    BY <1>2 DEF UploadsDone, UploadsFail, FindUrl, SetThumbnail, ThumbnailRefused
  <2>3. {} \in SUBSET image /\ file' = file \ {} /\ image' = image \ {}
    BY <2>1
  <2> QED
    BY <2>1, <2>2, <2>3, RowsGoneKeepFiles
<1>3. CASE DeleteFiles(r)
  <2>1. /\ q.at = "DeleteFiles" /\ file' = file \ S /\ image' = image \ S
        /\ UNCHANGED <<up, object, given, exists>>
    BY <1>3 DEF DeleteFiles, FilesWithout
  <2>2. PICK to : /\ Goto(r, to)
                  /\ to = IF NothingRemoved(q) THEN AfterRemoval(q) ELSE [q EXCEPT !.at = "DeleteObjects"]
    BY <1>3 DEF DeleteFiles
  <2>3. q # Idle
    BY <2>1 DEF Idle
  <2>4. S # {} => to.at = "DeleteObjects" /\ S \subseteq to.batch
    <3>1. S # {} => ~NothingRemoved(q)
      BY DEF NothingRemoved
    <3>2. [q EXCEPT !.at = "DeleteObjects"].at = "DeleteObjects"
          /\ [q EXCEPT !.at = "DeleteObjects"].batch = q.batch
      BY <1>1, <2>3 DEF Request
    <3> QED
      BY <2>2, <3>1, <3>2
  <2> HIDE DEF S
  <2> QED
    BY <1>1, <2>1, <2>2, <2>4, RowsGoneKeepFiles
<1>4. CASE DeleteFilesAndCategory(r)
  <2>1. q.at = "DeleteFiles" /\ UNCHANGED <<up, object, given>>
    BY <1>4 DEF DeleteFilesAndCategory
  <2>2. CASE q.id \notin exists
    <3>1. Goto(r, Idle) /\ UNCHANGED <<exists, file, image>>
      BY <1>4, <2>2 DEF DeleteFilesAndCategory
    <3>2. {} \in SUBSET image /\ file' = file \ {} /\ image' = image \ {}
      BY <3>1
    <3> QED
      BY <2>1, <3>1, <3>2, RowsGoneKeepFiles
  <2>3. CASE q.id \in exists
    <3> DEFINE T == S \cup ImagesOf(q.id)
    <3>1. /\ file' = file \ S /\ image' = image \ T /\ exists' = exists \ {q.id}
      BY <1>4, <2>3 DEF DeleteFilesAndCategory, FilesWithout, DropOwner
    <3>2. T \in SUBSET image /\ \A u \in T : u \in S \/ up[u].owner \notin exists'
      BY <3>1 DEF ImagesOf
    <3>3. PICK to : /\ Goto(r, to)
                    /\ to = IF q.batch = {} THEN Idle ELSE [q EXCEPT !.at = "DeleteObjects"]
      BY <1>4, <2>3 DEF DeleteFilesAndCategory
    <3>4. q # Idle
      BY <2>1 DEF Idle
    <3>5. S # {} => to.at = "DeleteObjects" /\ S \subseteq to.batch
      <4>1. [q EXCEPT !.at = "DeleteObjects"].at = "DeleteObjects"
            /\ [q EXCEPT !.at = "DeleteObjects"].batch = q.batch
        BY <1>1, <3>4 DEF Request
      <4> QED
        BY <3>3, <4>1
    <3>6. S \subseteq T
      OBVIOUS
    <3> HIDE DEF S, T
    <3> QED
      BY <1>1, <2>1, <3>1, <3>2, <3>3, <3>5, <3>6, RowsGoneKeepFiles
  <2> QED
    BY <2>2, <2>3
<1>5. CASE DeleteOwner(r)
  <2>1. q.at = "DeleteOwner" /\ Goto(r, Idle) /\ UNCHANGED <<up, object, given, file>>
    BY <1>5 DEF DeleteOwner
  <2>2. PICK T \in SUBSET image : /\ image' = image \ T /\ exists' \subseteq exists
                                  /\ \A u \in T : up[u].owner \notin exists'
    BY <1>5 DEF DeleteOwner, DropOwner, ImagesOf
  <2>3. {} \in SUBSET image /\ file' = file \ {} /\ {} \subseteq T
    BY <2>1
  <2> QED
    BY <2>1, <2>2, <2>3, RowsGoneKeepFiles
<1>6. CASE DeleteObjects(r)
  <2>1. q.at = "DeleteObjects" /\ q # Idle /\ UNCHANGED <<up, given, exists, file, image>>
    BY <1>6 DEF DeleteObjects, Idle, tables
  <2>2. KeysOf(q.batch) = q.batch
    BY <1>1, <2>1, Fields DEF KeysOf, OwnKeys
  <2>3. object' = [k \in DOMAIN object \ q.batch |-> object[k]]
    BY <1>6, <2>2 DEF DeleteObjects
  <2>4. \A s \in Requests \ {r} : req'[s] = req[s]
    BY <1>1, <1>6 DEF DeleteObjects, Goto, TypeOK
  <2>5. \A v \in DOMAIN object' : Deleted(v) => Deleted(v)'
    BY <2>3, <2>4 DEF Deleted
  <2>6. OwnObjects' /\ RowsOfPipelines' /\ Strays'
    BY <2>1, <2>3 DEF FilesKept, OwnObjects, RowsOfPipelines, Strays
  <2>7. Accounted'
    BY <2>1, <2>3, <2>5 DEF FilesKept, Accounted
  <2> QED
    BY <2>6, <2>7 DEF FilesKept
<1> QED
  BY <1>2, <1>3, <1>4, <1>5, <1>6 DEF RequestStep

LEMMA RemoveRequestKeepsFiles ==
    ASSUME Sound, FilesKept, NEW r \in Requests, NEW o \in Owners, RemoveRequest(r, o)
    PROVE  FilesKept'
<1>1. \E S, then : Remove(r, o, S, then)
  BY RemoveRequestShape DEF Sound
<1>2. /\ \E to : Goto(r, to)
      /\ req[r] = Idle /\ UNCHANGED <<up, object, given, exists, file, image>>
  BY <1>1 DEF Remove, tables
<1>3. req[r].at # "DeleteObjects"
  BY <1>2 DEF Idle
<1>4. {} \in SUBSET image /\ file' = file \ {} /\ image' = image \ {}
  BY <1>2
<1> QED
  BY <1>2, <1>3, <1>4, RowsGoneKeepFiles

FilesInv == failures = 0 => FilesKept

LEMMA FilesNext == Sound /\ FilesInv /\ [Next]_vars => FilesInv'
<1> SUFFICES ASSUME Sound, FilesInv, [Next]_vars, failures' = 0
             PROVE  FilesKept'
  BY DEF FilesInv
<1>1. CASE UNCHANGED vars
  BY <1>1 DEF vars, tables, FilesInv, FilesKept, OwnObjects, RowsOfPipelines, Accounted, Strays, Deleted
<1>2. CASE Next
  <2>1. /\ FilesKept /\ ~Crash
        /\ \A u \in Uploads : ~UploadFails(u)
        /\ \A r \in Requests : ~RequestFails(r)
    BY <1>2, QuietStep DEF Sound, FilesInv
  <2>2. ASSUME NEW o \in Products, OrderProduct(o)
        PROVE  FilesKept'
    BY <2>1, <2>2 DEF OrderProduct, FilesKept, OwnObjects, RowsOfPipelines, Accounted, Strays, Deleted
  <2>3. ASSUME NEW r \in Requests, NEW o \in Owners, UploadRequest(r, o)
        PROVE  FilesKept'
    BY <2>1, <2>3, UploadRequestStarts, StartsKeepFiles
  <2> QED
    BY <1>2, <2>1, <2>2, <2>3, UploadStepKeepsFiles, RequestStepKeepsFiles, RemoveRequestKeepsFiles DEF Next
<1> QED
  BY <1>1, <1>2

(***************************************************************************)
(* While the files of a request have different names and nothing failed,   *)
(* no object in storage and no row of uploaded_files is forgotten,         *)
(* whatever uploads, removals and deletions interleave.                    *)
(***************************************************************************)
THEOREM NothingLost ==
    ASSUME ~SameNames
    PROVE  Spec => []NothingForgotten
<1>1. Sound /\ FilesInv => NothingForgotten
  <2> SUFFICES ASSUME Sound, FilesKept
               PROVE  NothingForgotten
    BY DEF FilesInv, NothingForgotten, ObjectsAccounted, StrayFiles
  <2>1. \A r \in Requests : req[r].at = "DeleteObjects" => KeysOf(req[r].batch) = req[r].batch
    <3> SUFFICES ASSUME NEW r \in Requests, req[r].at = "DeleteObjects"
                 PROVE  KeysOf(req[r].batch) = req[r].batch
      OBVIOUS
    <3>1. req[r] \in Request /\ req[r] # Idle
      BY DEF Sound, TypeOK, Idle
    <3> QED
      BY <3>1, Fields DEF Sound, KeysOf, OwnKeys
  <2> QED
    BY <2>1 DEF FilesKept, OwnObjects, Accounted, Strays, Deleted, NothingForgotten, ObjectsAccounted, StrayFiles
<1>2. Init => FilesInv
  BY FilesInit DEF FilesInv
<1> QED
  BY <1>1, <1>2, SoundInit, SoundNext, FilesNext, PTL DEF Spec

-----------------------------------------------------------------------------
(* The address a blog stores *)

Deleting(b)     == \E r \in Requests : req[r] # Idle /\ req[r].id = b /\ req[r].then = "DeleteOwner"
Reachable(b, t) == t \in DOMAIN object \/ b \notin exists \/ Deleting(b)

\* t is a file that was uploaded for o.
Mine(o, t) == t # None => t \in Uploads /\ up[t].owner = o /\ up[t].at # "Unused"

RemovalFits(q) == q.at \in {"DeleteFiles", "DeleteObjects", "DeleteOwner"} =>
    /\ q.at # "DeleteOwner" => \A u \in q.batch : up[u].owner = q.id
    /\ q.id \in Blogs => q.then = "DeleteOwner"
UploadFits(q) == q.at \in {"Uploading", "FindUrl", "SetThumbnail"} =>
    /\ q.then # "DeleteOwner" /\ q.id \in given /\ Mine(q.id, q.thumb)
    /\ q.at # "Uploading" => q.thumb # None
    /\ q.at = "SetThumbnail" /\ q.id \in Blogs => Reachable(q.id, q.thumb)

RequestsFit == \A r \in Requests : RemovalFits(req[r]) /\ UploadFits(req[r])
BlogsFit    == \A b \in Blogs : thumbnail[b] # None =>
                  b \in exists /\ Mine(b, thumbnail[b]) /\ Reachable(b, thumbnail[b])

BlogsKept == RequestsFit /\ BlogsFit

LEMMA BlogsInit == Init => BlogsKept
<1> SUFFICES ASSUME Init
             PROVE  BlogsKept
  OBVIOUS
<1>1. \A r \in Requests : req[r].at = "Idle"
  BY DEF Init, Idle
<1>2. \A b \in Blogs : thumbnail[b] = None
  BY DEF Init, Owners
<1> QED
  BY <1>1, <1>2 DEF BlogsKept, RequestsFit, RemovalFits, UploadFits, BlogsFit

LEMMA UploadStepKeepsBlogs ==
    ASSUME Sound, BlogsKept, NEW u \in Uploads, UploadStep(u), ~UploadFails(u)
    PROVE  BlogsKept'
<1> USE StepAfterType DEF Steps
<1>1. TypeOK /\ RequestsFit /\ BlogsFit
  BY DEF Sound, BlogsKept
<1>2. UNCHANGED <<given, exists, thumbnail, req>> /\ DOMAIN object \subseteq DOMAIN object'
  BY DEF UploadStep, PutObject, CreateFile, CreateImage, tables
<1>3. PICK s \in Steps \ {"Unused"} : Advance(u, s)
  BY DEF UploadStep, PutObject, CreateFile, CreateImage
<1>4. \A v \in Uploads : up'[v].owner = up[v].owner /\ (up[v].at # "Unused" => up'[v].at # "Unused")
  BY <1>1, <1>3, AdvanceType
<1>5. /\ \A b, t : Reachable(b, t) => Reachable(b, t)'
      /\ \A o, t : Mine(o, t) => Mine(o, t)'
  BY <1>2, <1>4 DEF Reachable, Deleting, Mine
<1>6. \A r \in Requests : req[r].at \in {"DeleteFiles", "DeleteObjects", "DeleteOwner"} => req[r].batch \subseteq Uploads
  BY <1>1, Fields DEF TypeOK, Idle
<1>7. RequestsFit'
  BY <1>1, <1>2, <1>4, <1>5, <1>6 DEF RequestsFit, RemovalFits, UploadFits
<1> QED
  BY <1>1, <1>2, <1>5, <1>7 DEF BlogsKept, BlogsFit

LEMMA StartsKeepBlogs ==
    ASSUME Sound, BlogsKept, NEW r \in Requests, NEW o \in Owners, NEW B \in SUBSET Uploads, Starts(r, o, B)
    PROVE  BlogsKept'
<1>1. TypeOK /\ Removals /\ RequestsFit /\ BlogsFit
  BY DEF Sound, BlogsKept
<1>2. \A v \in B : up[v].at = "Unused"
  BY DEF Starts, Unused
<1>3. /\ \A v \in Uploads \ B : up'[v] = up[v]
      /\ \A v \in B : up'[v].at = "Put" /\ up'[v].owner = o
  BY <1>1, StartUploadsType DEF Starts
<1>4. /\ UNCHANGED <<thumbnail, object>> /\ given \subseteq given' /\ o \in given' /\ exists \subseteq exists'
      /\ \A p \in given : p \in exists' => p \in exists
  BY <1>1 DEF Starts, New, Found, TypeOK
<1>5. \A p, t : Mine(p, t) => Mine(p, t)'
  BY <1>2, <1>3 DEF Mine
<1>6. ASSUME NEW b, Deleting(b)
      PROVE  Deleting(b)'
  <2>1. PICK s \in Requests : req[s] # Idle /\ req[s].id = b /\ req[s].then = "DeleteOwner"
    BY <1>6 DEF Deleting
  <2>2. req'[s] = req[s]
    BY <1>1, <2>1 DEF Starts, Goto, TypeOK
  <2> QED
    BY <2>1, <2>2 DEF Deleting
<1>7. \A b \in given : \A t : Reachable(b, t) => Reachable(b, t)'
  BY <1>4, <1>6 DEF Reachable
<1>8. ASSUME NEW s \in Requests, req'[s] = req[s]
      PROVE  RemovalFits(req[s])' /\ UploadFits(req[s])'
  <2>1. RemovalFits(req[s]) /\ UploadFits(req[s])
    BY <1>1 DEF RequestsFit
  <2>2. req[s].at \in {"DeleteFiles", "DeleteObjects"} => \A u \in req[s].batch : u \in Uploads /\ u \notin B
    BY <1>1, <1>2, Fields DEF Removals, TypeOK, Idle
  <2>3. req[s].at \in {"DeleteFiles", "DeleteObjects", "DeleteOwner"} /\ req[s].at # "DeleteOwner"
        => \A u \in req[s].batch : up'[u].owner = up[u].owner
    BY <1>3, <2>2
  <2> QED
    BY <1>4, <1>5, <1>7, <1>8, <2>1, <2>3 DEF RemovalFits, UploadFits
<1>9. ASSUME NEW s \in Requests, req'[s] # req[s]
      PROVE  RemovalFits(req[s])' /\ UploadFits(req[s])'
  <2>1. PICK t \in B \cup {None}, then \in {"Answer", "SetThumbnail"} :
            req' = [req EXCEPT ![r] = [at |-> "Uploading", id |-> o, batch |-> B, thumb |-> t, then |-> then]]
    BY <1>9 DEF Starts, Goto
  <2>2. req'[s] = [at |-> "Uploading", id |-> o, batch |-> B, thumb |-> t, then |-> then]
    BY <1>1, <1>9, <2>1 DEF TypeOK
  <2>3. Mine(o, t)'
    BY <1>3 DEF Mine
  <2> QED
    BY <1>4, <2>2, <2>3 DEF RemovalFits, UploadFits
<1>10. RequestsFit'
  BY <1>8, <1>9 DEF RequestsFit
<1>11. BlogsFit'
  BY <1>1, <1>4, <1>5, <1>7 DEF BlogsFit, TypeOK
<1> QED
  BY <1>10, <1>11 DEF BlogsKept

\* Request r goes on to the point `to`.
LEMMA StepKeepsBlogs ==
    ASSUME Sound, BlogsKept, NEW r \in Requests, NEW to, Goto(r, to),
           UNCHANGED <<up, given>>, exists' \subseteq exists,
           req[r] # Idle /\ req[r].id \in Blogs /\ req[r].then = "DeleteOwner" =>
              (to # Idle /\ to.id = req[r].id /\ to.then = "DeleteOwner") \/ req[r].id \notin exists',
           \A b \in Blogs : \A t \in DOMAIN object : Mine(b, t) /\ t # None =>
              t \in DOMAIN object' \/ (to # Idle /\ to.id = b /\ to.then = "DeleteOwner"),
           RemovalFits(to), UploadFits(to),
           \A b \in Blogs : thumbnail'[b] # None =>
              b \in exists' /\ (\/ thumbnail'[b] = thumbnail[b]
                                \/ Mine(b, thumbnail'[b]) /\ Reachable(b, thumbnail'[b]))
    PROVE  BlogsKept'
<1>1. TypeOK /\ RequestsFit /\ BlogsFit
  BY DEF Sound, BlogsKept
<1>2. \A s \in Requests : req'[s] = IF s = r THEN to ELSE req[s]
  BY <1>1 DEF Goto, TypeOK
<1>3. \A b \in Blogs : Deleting(b) => Deleting(b)' \/ b \notin exists'
  BY <1>2 DEF Deleting
<1>4. \A b \in Blogs : \A t : Mine(b, t) /\ t # None /\ Reachable(b, t) => Reachable(b, t)'
  <2> SUFFICES ASSUME NEW b \in Blogs, NEW t, Mine(b, t), t # None, Reachable(b, t), b \in exists'
               PROVE  t \in DOMAIN object' \/ Deleting(b)'
    BY DEF Reachable
  <2>1. to # Idle /\ to.id = b /\ to.then = "DeleteOwner" => Deleting(b)'
    BY <1>2 DEF Deleting
  <2> QED
    BY <1>3, <2>1 DEF Reachable
<1>5. \A o, t : Mine(o, t)' = Mine(o, t)
  BY DEF Mine
<1>6. \A q : RemovalFits(q) /\ UploadFits(q) => RemovalFits(q)' /\ UploadFits(q)'
  BY <1>4, <1>5 DEF RemovalFits, UploadFits
<1>7. RequestsFit'
  BY <1>1, <1>2, <1>6 DEF RequestsFit
<1>8. BlogsFit'
  <2>1. ASSUME NEW b \in Blogs, NEW t, t = thumbnail'[b], t # None
        PROVE  b \in exists' /\ Mine(b, t)' /\ Reachable(b, t)'
    <3>1. Mine(b, t) /\ Reachable(b, t) /\ b \in exists'
      BY <1>1, <2>1 DEF BlogsFit
    <3> QED
      BY <1>4, <1>5, <2>1, <3>1
  <2> QED
    BY <2>1 DEF BlogsFit
<1> QED
  BY <1>7, <1>8 DEF BlogsKept

\* The fields of a request that moves on to another point.
LEMMA Moved ==
    ASSUME NEW q \in Request, q # Idle, NEW at \in Working
    PROVE  LET to == [q EXCEPT !.at = at] IN
           /\ to # Idle /\ to.at = at /\ to.id = q.id /\ to.batch = q.batch
           /\ to.thumb = q.thumb /\ to.then = q.then
  BY DEF Request, Idle, Working

LEMMA IdleFits == RemovalFits(Idle) /\ UploadFits(Idle)
  BY DEF RemovalFits, UploadFits, Idle

LEMMA UploadAnswersKeepBlogs ==
    ASSUME Sound, BlogsKept, NEW r \in Requests,
           UploadsDone(r) \/ UploadsFail(r) \/ FindUrl(r) \/ SetThumbnail(r) \/ ThumbnailRefused(r)
    PROVE  BlogsKept'
<1> DEFINE q == req[r]
<1>1. /\ TypeOK /\ RequestsFit /\ BlogsFit /\ q \in Request /\ Pipelines /\ image \subseteq Uploads
  BY DEF Sound, TypeOK, BlogsKept
<1>2. q.at \in {"Uploading", "FindUrl", "SetThumbnail"} /\ UNCHANGED <<up, given, exists, object>>
  BY DEF UploadsDone, UploadsFail, FindUrl, SetThumbnail, ThumbnailRefused, tables
<1>3. q # Idle /\ q.then # "DeleteOwner" /\ q.id \in Owners
  BY <1>1, <1>2, Fields DEF Idle, RequestsFit, UploadFits
<1>4. PICK to : Goto(r, to) /\ RemovalFits(to) /\ UploadFits(to)
  <2>1. UploadFits(q)
    BY <1>1 DEF RequestsFit
  <2>2. CASE Goto(r, Idle)
    BY <2>2, IdleFits
  <2>3. CASE UploadsDone(r)
    <3>1. CASE q.id \in Blogs /\ q.thumb # None
      <4>1. RemovalFits([q EXCEPT !.at = "FindUrl"]) /\ UploadFits([q EXCEPT !.at = "FindUrl"])
        BY <1>1, <1>2, <1>3, <2>1, <3>1, Moved DEF RemovalFits, UploadFits, Working
      <4> QED
        BY <2>2, <2>3, <3>1, <4>1 DEF UploadsDone
    <3>2. CASE q.id \notin Blogs /\ q.thumb # None
      <4>1. RemovalFits([q EXCEPT !.at = "SetThumbnail"]) /\ UploadFits([q EXCEPT !.at = "SetThumbnail"])
        BY <1>1, <1>2, <1>3, <2>1, <3>2, Moved DEF RemovalFits, UploadFits, Working
      <4> QED
        BY <2>2, <2>3, <3>2, <4>1 DEF UploadsDone
    <3> QED
      BY <2>2, <2>3, <3>1, <3>2 DEF UploadsDone
  <2>4. CASE FindUrl(r) /\ q.thumb \in image
    <3>1. q.thumb \in DOMAIN object
      BY <1>1, <2>4 DEF Pipelines, Stored
    <3>2. RemovalFits([q EXCEPT !.at = "SetThumbnail"]) /\ UploadFits([q EXCEPT !.at = "SetThumbnail"])
      BY <1>1, <1>2, <1>3, <2>1, <2>4, <3>1, Moved DEF RemovalFits, UploadFits, Working, Reachable, FindUrl
    <3> QED
      BY <2>4, <3>2 DEF FindUrl
  <2> QED
    BY <2>2, <2>3, <2>4 DEF UploadsFail, FindUrl, SetThumbnail, ThumbnailRefused
<1>5. ASSUME NEW b \in Blogs, thumbnail'[b] # None
      PROVE  b \in exists' /\ (\/ thumbnail'[b] = thumbnail[b]
                               \/ Mine(b, thumbnail'[b]) /\ Reachable(b, thumbnail'[b]))
  <2>1. CASE thumbnail'[b] = thumbnail[b]
    BY <1>1, <1>2, <1>5, <2>1 DEF BlogsFit
  <2>2. CASE thumbnail'[b] # thumbnail[b]
    <3>1. q.at = "SetThumbnail" /\ Attachable(q.id, q.thumb) /\ thumbnail' = [thumbnail EXCEPT ![q.id] = q.thumb]
      BY <2>2 DEF UploadsDone, UploadsFail, FindUrl, SetThumbnail, ThumbnailRefused, tables
    <3>2. b = q.id /\ thumbnail'[b] = q.thumb
      BY <1>1, <1>3, <2>2, <3>1 DEF TypeOK
    <3>3. Mine(b, q.thumb) /\ Reachable(b, q.thumb)
      BY <1>1, <3>1, <3>2 DEF RequestsFit, UploadFits
    <3> QED
      BY <1>2, <3>1, <3>2, <3>3 DEF Attachable
  <2> QED
    BY <2>1, <2>2
<1> QED
  BY <1>2, <1>3, <1>4, <1>5, StepKeepsBlogs

\* Rows of files and of other owners than blogs are deleted.
LEMMA RowsDeletedKeepBlogs ==
    ASSUME Sound, BlogsKept, NEW r \in Requests, DeleteFiles(r) \/ DeleteFilesAndCategory(r)
    PROVE  BlogsKept'
<1> DEFINE q == req[r]
<1>1. TypeOK /\ RequestsFit /\ BlogsFit /\ q \in Request
  BY DEF Sound, TypeOK, BlogsKept
<1>2. q.at = "DeleteFiles" /\ q # Idle /\ UNCHANGED <<up, given, object>>
  BY DEF DeleteFiles, DeleteFilesAndCategory, Idle
<1>3. PICK to : /\ Goto(r, to)
                /\ \/ to = [q EXCEPT !.at = "DeleteObjects"]
                   \/ to = AfterRemoval(q)
                   \/ to = Idle /\ q.id \in Categories
  <2>1. CASE DeleteFiles(r)
    BY <2>1 DEF DeleteFiles
  <2>2. CASE DeleteFilesAndCategory(r)
    BY <2>2 DEF DeleteFilesAndCategory
  <2> QED
    BY <2>1, <2>2
<1>4. RemovalFits(q)
  BY <1>1 DEF RequestsFit
<1>5. /\ RemovalFits(to) /\ UploadFits(to)
      /\ q.then = "DeleteOwner" /\ q.id \notin Categories => to # Idle /\ to.id = q.id /\ to.then = "DeleteOwner"
  <2>1. CASE to = Idle /\ (q.id \in Categories \/ q.then # "DeleteOwner")
    BY <2>1, IdleFits
  <2>2. ASSUME NEW at \in {"DeleteObjects", "DeleteOwner"}, to = [q EXCEPT !.at = at]
        PROVE  /\ RemovalFits(to) /\ UploadFits(to)
               /\ to # Idle /\ to.id = q.id /\ to.then = q.then
    BY <1>1, <1>2, <1>4, <2>2, Moved DEF RemovalFits, UploadFits, Working
  <2>3. AfterRemoval(q) = [q EXCEPT !.at = "DeleteOwner"] 
        \/ (AfterRemoval(q) = Idle /\ q.then # "DeleteOwner")
    BY DEF AfterRemoval
  <2> QED
    BY <1>3, <2>1, <2>2, <2>3
<1>6. Blogs \cap Categories = {} /\ Blogs \cap FkOwners = {} /\ Blogs \subseteq Owners
  BY DEF FkOwners, Owners
<1>7. /\ exists' \subseteq exists
      /\ \A b \in Blogs : thumbnail'[b] = thumbnail[b] /\ (b \in exists => b \in exists')
  <2>1. CASE DeleteFiles(r) \/ UNCHANGED <<exists, thumbnail>>
    BY <1>6, <2>1 DEF DeleteFiles, WithoutThumbnails
  <2>2. CASE q.id \in Categories /\ DropOwner(q.id, q.batch \cap image)
    <3>1. \A b \in Blogs : b # q.id
      BY <1>6, <2>2
    <3>2. \A S : \A b \in Blogs : WithoutThumbnails(S)[b] = thumbnail[b]
      BY <1>6 DEF WithoutThumbnails
    <3>3. \A S : DOMAIN WithoutThumbnails(S) = Owners
      BY DEF WithoutThumbnails
    <3> QED
      BY <1>6, <2>2, <3>1, <3>2, <3>3 DEF DropOwner
  <2> QED
    BY <2>1, <2>2 DEF DeleteFilesAndCategory
<1>8. \A b \in Blogs : thumbnail'[b] # None => b \in exists' /\ thumbnail'[b] = thumbnail[b]
  BY <1>1, <1>7 DEF BlogsFit
<1> HIDE DEF q
<1> QED
  BY <1>2, <1>3, <1>5, <1>6, <1>7, <1>8, StepKeepsBlogs DEF q

LEMMA ObjectsDeletedKeepBlogs ==
    ASSUME Sound, BlogsKept, NEW r \in Requests, DeleteObjects(r)
    PROVE  BlogsKept'
<1> DEFINE q == req[r]
<1>1. TypeOK /\ OwnKeys /\ RequestsFit /\ BlogsFit /\ q \in Request
  BY DEF Sound, TypeOK, BlogsKept
<1>2. q.at = "DeleteObjects" /\ q # Idle /\ UNCHANGED <<up, given, exists, thumbnail>>
  BY DEF DeleteObjects, Idle, tables
<1>3. q.batch \subseteq Uploads /\ RemovalFits(q)
  BY <1>1, <1>2, Fields DEF RequestsFit
<1>4. KeysOf(q.batch) = q.batch
  BY <1>1, <1>3 DEF KeysOf, OwnKeys
<1>5. DOMAIN object' = DOMAIN object \ q.batch
  BY <1>4 DEF DeleteObjects
<1>6. PICK to : Goto(r, to) /\ to = AfterRemoval(q)
  BY DEF DeleteObjects
<1>7. /\ RemovalFits(to) /\ UploadFits(to)
      /\ q.then = "DeleteOwner" => to # Idle /\ to.id = q.id /\ to.then = "DeleteOwner"
  <2>1. CASE q.then = "DeleteOwner"
    BY <1>1, <1>2, <1>3, <1>6, <2>1, Moved DEF RemovalFits, UploadFits, Working, AfterRemoval
  <2>2. CASE q.then # "DeleteOwner"
    BY <1>6, <2>2, IdleFits DEF AfterRemoval
  <2> QED
    BY <2>1, <2>2
<1>8. \A b \in Blogs : \A t \in DOMAIN object : Mine(b, t) /\ t # None =>
         t \in DOMAIN object' \/ (to # Idle /\ to.id = b /\ to.then = "DeleteOwner")
  <2> SUFFICES ASSUME NEW b \in Blogs, NEW t \in q.batch, Mine(b, t), t # None
               PROVE  to # Idle /\ to.id = b /\ to.then = "DeleteOwner"
    BY <1>5
  <2>1. q.id = b /\ q.then = "DeleteOwner"
    BY <1>2, <1>3 DEF Mine, RemovalFits
  <2> QED
    BY <1>7, <2>1
<1>9. \A b \in Blogs : thumbnail'[b] # None => b \in exists' /\ thumbnail'[b] = thumbnail[b]
  BY <1>1, <1>2 DEF BlogsFit
<1> HIDE DEF q
<1> QED
  BY <1>2, <1>6, <1>7, <1>8, <1>9, StepKeepsBlogs DEF q

LEMMA OwnerDeletedKeepsBlogs ==
    ASSUME Sound, BlogsKept, NEW r \in Requests, DeleteOwner(r)
    PROVE  BlogsKept'
<1> DEFINE o == req[r].id
<1>1. TypeOK /\ RequestsFit /\ BlogsFit
  BY DEF Sound, BlogsKept
<1>2. Goto(r, Idle) /\ UNCHANGED <<up, given, object>>
  BY DEF DeleteOwner
<1>3. Blogs \cap FkOwners = {} /\ Blogs \subseteq Owners /\ Blogs \cap ordered = {}
  BY <1>1 DEF FkOwners, Owners, TypeOK
<1>4. /\ exists' \subseteq exists /\ (o \in Blogs => o \notin exists')
      /\ \A b \in Blogs : thumbnail'[b] # None => b \in exists' /\ thumbnail'[b] = thumbnail[b]
  <2>1. CASE UNCHANGED <<exists, thumbnail>> /\ o \notin exists \ ordered
    BY <1>1, <1>3, <2>1 DEF BlogsFit
  <2>2. CASE DropOwner(o, {})
    <3>1. PICK W : W = WithoutThumbnails({} \cup ImagesOf(o))
      OBVIOUS
    <3>2. DOMAIN W = Owners /\ \A b \in Blogs : W[b] = thumbnail[b]
      BY <1>3, <3>1 DEF WithoutThumbnails
    <3>3. exists' = exists \ {o} /\ thumbnail' = [W EXCEPT ![o] = None]
      BY <2>2, <3>1 DEF DropOwner
    <3>4. \A b \in Blogs : thumbnail'[b] # None => b # o /\ thumbnail'[b] = thumbnail[b]
      BY <1>3, <3>2, <3>3
    <3> QED
      BY <1>1, <3>3, <3>4 DEF BlogsFit
  <2> QED
    BY <2>1, <2>2 DEF DeleteOwner
<1> QED
  BY <1>2, <1>4, IdleFits, StepKeepsBlogs

LEMMA RemoveRequestKeepsBlogs ==
    ASSUME Sound, BlogsKept, NEW r \in Requests, NEW o \in Owners, RemoveRequest(r, o)
    PROVE  BlogsKept'
<1>1. BlogsFit
  BY DEF BlogsKept
<1>2. PICK S, then : /\ Remove(r, o, S, then)
                     /\ \A u \in S : up[u].owner = o
                     /\ o \in Blogs => then = "DeleteOwner"
  BY RemoveRequestShape DEF Sound
<1>3. PICK q : q = [at |-> "DeleteFiles", id |-> o, batch |-> S, thumb |-> None, then |-> then]
  OBVIOUS
<1>4. req[r] = Idle /\ Goto(r, q) /\ UNCHANGED <<up, given, exists, thumbnail, object>>
  BY <1>2, <1>3 DEF Remove, tables
<1>5. RemovalFits(q) /\ UploadFits(q)
  BY <1>2, <1>3 DEF RemovalFits, UploadFits
<1>6. \A b \in Blogs : thumbnail'[b] # None => b \in exists' /\ thumbnail'[b] = thumbnail[b]
  BY <1>1, <1>4 DEF BlogsFit
<1> QED
  BY <1>4, <1>5, <1>6, StepKeepsBlogs

BlogsInv == failures = 0 => BlogsKept

LEMMA BlogsNext == Sound /\ BlogsInv /\ [Next]_vars => BlogsInv'
<1> SUFFICES ASSUME Sound, BlogsInv, [Next]_vars, failures' = 0
             PROVE  BlogsKept'
  BY DEF BlogsInv
<1>1. ASSUME BlogsKept, UNCHANGED <<given, exists, thumbnail, object, up, req>>
      PROVE  BlogsKept'
  BY <1>1 DEF BlogsKept, RequestsFit, RemovalFits, UploadFits, BlogsFit, Mine, Reachable, Deleting
<1>2. CASE UNCHANGED vars
  BY <1>1, <1>2 DEF vars, tables, BlogsInv
<1>3. CASE Next
  <2>1. /\ BlogsKept /\ ~Crash
        /\ \A u \in Uploads : ~UploadFails(u)
        /\ \A r \in Requests : ~RequestFails(r)
    BY <1>3, QuietStep DEF Sound, BlogsInv
  <2>2. ASSUME NEW o \in Products, OrderProduct(o)
        PROVE  BlogsKept'
    BY <1>1, <2>1, <2>2 DEF OrderProduct
  <2>3. ASSUME NEW r \in Requests, NEW o \in Owners, UploadRequest(r, o)
        PROVE  BlogsKept'
    BY <2>1, <2>3, UploadRequestStarts, StartsKeepBlogs
  <2>4. ASSUME NEW r \in Requests, RequestStep(r)
        PROVE  BlogsKept'
    BY <2>1, <2>4, UploadAnswersKeepBlogs, RowsDeletedKeepBlogs, ObjectsDeletedKeepBlogs, OwnerDeletedKeepsBlogs
    DEF RequestStep
  <2> QED
    BY <1>3, <2>1, <2>2, <2>3, <2>4, UploadStepKeepsBlogs, RemoveRequestKeepsBlogs DEF Next
<1> QED
  BY <1>2, <1>3

(***************************************************************************)
(* While the files of a request have different names and nothing failed,   *)
(* the address createBlog stored leads to an object until deleteBlog is on *)
(* its way, though no foreign key keeps it.                                *)
(***************************************************************************)
THEOREM BlogThumbnailSafe ==
    ASSUME ~SameNames
    PROVE  Spec => []BlogThumbnailAlive
<1>1. Sound /\ BlogsInv => BlogThumbnailAlive
  <2> SUFFICES ASSUME Sound, BlogsKept, NEW b \in Blogs \cap exists, thumbnail[b] # None
               PROVE  up[thumbnail[b]].key \in DOMAIN object \/ Deleting(b)
    BY DEF BlogsInv, BlogThumbnailAlive, Deleting
  <2>1. Mine(b, thumbnail[b]) /\ Reachable(b, thumbnail[b])
    BY DEF BlogsKept, BlogsFit
  <2> QED
    BY <2>1 DEF Mine, Reachable, Sound, OwnKeys
<1>2. Init => BlogsInv
  BY BlogsInit DEF BlogsInv
<1> QED
  BY <1>1, <1>2, SoundInit, SoundNext, BlogsNext, PTL DEF Spec
=============================================================================
