-------------------------------- MODULE Media --------------------------------
(***************************************************************************)
(* Files in storage and the rows that point at them: files.service.ts,     *)
(* aws-s3.service.ts and the handlers of products, categories, blogs and   *)
(* users that upload and remove pictures.                                  *)
(*                                                                         *)
(* An upload is a pipeline of its own: put the object, create its row in   *)
(* uploaded_files, create the picture's row (ProductImage, CategoryImage,  *)
(* BlogAttachment or UserAvatar).  A handler starts several by Promise.all *)
(* and waits; when one fails it answers, and the others go on without it.  *)
(* A removal deletes the rows it read, then the objects, then perhaps the  *)
(* owner.  Nothing but the database calls and category's transaction is    *)
(* atomic.  An upload stands for the ids of the rows it makes.             *)
(***************************************************************************)
EXTENDS FiniteSets, Naturals

CONSTANTS
    Products, Categories, Blogs,   \* ids of the owners of pictures
    Users,
    Uploads,       \* files sent to the server
    None,          \* no file
    Requests,      \* handlers at work
    SameNames,     \* files of one request may have the same name
    MaxFailures    \* failures of storage, database or server

FkOwners == Products \cup Categories \cup Users  \* whose thumbnail is a foreign key
Owners   == FkOwners \cup Blogs                  \* a blog stores the address itself

ASSUME MediaAssumption ==
    /\ Products \cap Categories = {} /\ Products \cap Users = {}
    /\ Categories \cap Users = {} /\ Blogs \cap FkOwners = {}
    /\ None \notin Uploads
    /\ SameNames \in BOOLEAN
    /\ MaxFailures \in Nat

VARIABLES
    given,      \* ids given out; the database does not reuse them
    exists,     \* owners with a row
    ordered,    \* products some order detail refers to
    file,       \* table uploaded_files
    image,      \* tables product_images, category_images, blog_attachments, user_avatars
    thumbnail,  \* thumbnailId, currentAvatarId, or the address in Blog.thumbnail
    object,     \* storage: key -> the file that was put there
    up,         \* the pipelines
    req,        \* the handlers
    failures

tables == <<given, exists, ordered, file, image, thumbnail>>
vars   == <<tables, object, up, req, failures>>

Steps == {"Unused", "Put", "File", "Image", "Done", "Failed"}

Idle    == [at |-> "Idle"]
Working == {"Uploading", "FindUrl", "SetThumbnail", "DeleteFiles", "DeleteObjects", "DeleteOwner"}
Request == {Idle} \cup
    [at : Working, id : Owners, batch : SUBSET Uploads, thumb : Uploads \cup {None},
     then : {"Answer", "SetThumbnail", "Count", "DeleteOwner"}]

TypeOK ==
    /\ exists \subseteq given /\ given \subseteq Owners
    /\ ordered \subseteq exists \cap Products
    /\ image \subseteq file /\ file \subseteq Uploads
    /\ thumbnail \in [Owners -> Uploads \cup {None}]
    /\ \A o \in FkOwners : thumbnail[o] # None => thumbnail[o] \in image /\ o \in exists
    /\ DOMAIN object \subseteq Uploads /\ \A k \in DOMAIN object : object[k] \in Uploads
    /\ up \in [Uploads -> [at : Steps, owner : Owners \cup {None}, key : Uploads]]
    /\ req \in [Requests -> Request]
    /\ failures \in 0..MaxFailures

Init ==
    /\ given = Users /\ exists = Users /\ ordered = {}
    /\ file = {} /\ image = {}
    /\ thumbnail = [o \in Owners |-> None]
    /\ object = << >>
    /\ up = [u \in Uploads |-> [at |-> "Unused", owner |-> None, key |-> u]]
    /\ req = [r \in Requests |-> Idle]
    /\ failures = 0

Goto(r, to) == req' = [req EXCEPT ![r] = to]

ImagesOf(o) == {u \in image : up[u].owner = o}
Unused      == {u \in Uploads : up[u].at = "Unused"}

------------------------------------------------------------------------------
(* Uploads *)

StepAfterRowFirst(at) ==
    CASE at = "Unused" -> "File" [] at = "File" -> "Image"
      [] at = "Image" -> "Put"   [] at = "Put" -> "Done"
StepAfter(at) ==
    CASE at = "Unused" -> "Put" [] at = "Put" -> "File"
      [] at = "File" -> "Image" [] at = "Image" -> "Done"

Advance(u, to) == up' = [up EXCEPT ![u].at = to]

\* The key is folder, milliseconds and file name: the uploads one handler
\* starts at once differ by their names only.
Namings(B) ==
    {[u \in B |-> u]} \cup (IF SameNames THEN {[u \in B |-> v] : v \in B} ELSE {})

StartUploads(o, B) ==
    \E key \in Namings(B) :
        up' = [u \in Uploads |->
                 IF u \in B THEN [at |-> StepAfter("Unused"), owner |-> o, key |-> key[u]]
                 ELSE up[u]]

PutObject(u) ==
    /\ up[u].at = "Put"
    /\ object' = [k \in DOMAIN object \cup {up[u].key} |-> IF k = up[u].key THEN u ELSE object[k]]
    /\ Advance(u, StepAfter("Put"))
    /\ UNCHANGED <<tables, req, failures>>

\* uploaded_files.key is unique.
CreateFile(u) ==
    /\ up[u].at = "File"
    /\ IF \E v \in file : up[v].key = up[u].key
       THEN Advance(u, "Failed") /\ UNCHANGED file
       ELSE Advance(u, StepAfter("File")) /\ file' = file \cup {u}
    /\ UNCHANGED <<given, exists, ordered, image, thumbnail, object, req, failures>>

\* The picture's row refers to its owner.
CreateImage(u) ==
    /\ up[u].at = "Image"
    /\ IF up[u].owner \in exists /\ u \in file
       THEN Advance(u, StepAfter("Image")) /\ image' = image \cup {u}
       ELSE Advance(u, "Failed") /\ UNCHANGED image
    /\ UNCHANGED <<given, exists, ordered, file, thumbnail, object, req, failures>>

------------------------------------------------------------------------------
(* Handlers that upload *)

\* The handler of owner o awaits the uploads of B; t is the thumbnail.
Await(r, o, B, t, then) ==
    /\ req[r] = Idle
    /\ B \subseteq Unused
    /\ StartUploads(o, B)
    /\ Goto(r, [at |-> "Uploading", id |-> o, batch |-> B, thumb |-> t, then |-> then])
    /\ UNCHANGED <<ordered, file, image, thumbnail, object, failures>>

New(o) == o \notin given /\ given' = given \cup {o} /\ exists' = exists \cup {o}
Found(o) == o \in exists /\ UNCHANGED <<given, exists>>

\* Without images the handler fails on spreading them, its product stored and
\* the upload of the thumbnail started.
CreateProduct(r, o, B, t) ==
    /\ o \in Products /\ New(o) /\ B \ {t} # {}
    /\ Await(r, o, B, t, "SetThumbnail")
CreateProductNoImages(r, o, t) ==
    /\ o \in Products /\ New(o) /\ req[r] = Idle
    /\ t \in Unused \cup {None}
    /\ StartUploads(o, {t} \ {None})
    /\ UNCHANGED <<ordered, file, image, thumbnail, object, req, failures>>

\* updateProduct, updateProductThumbnail, updateCategoryThumbnail: one new picture.
UpdateThumbnail(r, o, t) ==
    /\ o \in Products \cup Categories /\ Found(o) /\ t # None
    /\ Await(r, o, {t}, t, "SetThumbnail")
AddProductImages(r, o, B) ==
    /\ o \in Products /\ Found(o) /\ B # {}
    /\ Await(r, o, B, None, "Answer")
CreateCategory(r, o, t) ==
    /\ o \in Categories /\ New(o)
    /\ Await(r, o, {t} \ {None}, t, "SetThumbnail")
CreateBlog(r, o, B, t) ==
    /\ o \in Blogs /\ New(o)
    /\ Await(r, o, B, t, "SetThumbnail")
UpdateUserAvatar(r, o, t) ==
    /\ o \in Users /\ Found(o) /\ t # None
    /\ Await(r, o, {t}, t, "SetThumbnail")

AllDone(B)    == \A u \in B : up[u].at = "Done"
SomeFailed(B) == \E u \in B : up[u].at = "Failed"

\* createProduct takes the id of a thumbnail it may not have been sent.
UploadsDone(r) ==
    /\ req[r].at = "Uploading" /\ AllDone(req[r].batch)
    /\ IF req[r].then = "Answer" \/ req[r].thumb = None
       THEN Goto(r, Idle)
       ELSE Goto(r, [req[r] EXCEPT !.at = IF req[r].id \in Blogs THEN "FindUrl" ELSE "SetThumbnail"])
    /\ UNCHANGED <<tables, object, up, failures>>

\* Promise.all rejects: the handler answers, whatever the others still do.
UploadsFail(r) ==
    /\ req[r].at = "Uploading" /\ SomeFailed(req[r].batch)
    /\ Goto(r, Idle)
    /\ UNCHANGED <<tables, object, up, failures>>

\* createBlog reads the address of its thumbnail, if the attachment is still there.
FindUrl(r) ==
    /\ req[r].at = "FindUrl"
    /\ Goto(r, IF req[r].thumb \in image THEN [req[r] EXCEPT !.at = "SetThumbnail"] ELSE Idle)
    /\ UNCHANGED <<tables, object, up, failures>>

\* The last update names the owner and, but for a blog, a row that must exist.
AttachableUnread(o, t) == o \in exists
Attachable(o, t)       == o \in exists /\ (o \in Blogs \/ t \in image)
SetThumbnail(r) ==
    LET o == req[r].id  t == req[r].thumb IN
    /\ req[r].at = "SetThumbnail"
    /\ thumbnail' = IF Attachable(o, t) THEN [thumbnail EXCEPT ![o] = t] ELSE thumbnail
    /\ Goto(r, Idle)
    /\ UNCHANGED <<given, exists, ordered, file, image, object, up, failures>>

\* The same update sets the slug, which another may have taken since it was
\* checked, or a category that does not exist.
ThumbnailRefused(r) ==
    /\ req[r].at = "SetThumbnail" /\ req[r].id \in Products \cup Categories
    /\ Goto(r, Idle)
    /\ UNCHANGED <<tables, object, up, failures>>

------------------------------------------------------------------------------
(* Handlers that remove *)

\* The handler has read the pictures S of its owner.
Remove(r, o, S, then) ==
    /\ req[r] = Idle /\ o \in exists
    /\ Goto(r, [at |-> "DeleteFiles", id |-> o, batch |-> S, thumb |-> None, then |-> then])
    /\ UNCHANGED <<tables, object, up, failures>>

RemoveProductImages(r, o, S) == o \in Products /\ S \subseteq ImagesOf(o) /\ Remove(r, o, S, "Count")
RemoveAllImages(r, o) == o \in Products /\ Remove(r, o, ImagesOf(o), "Answer")
DeleteProduct(r, o)   == o \in Products /\ Remove(r, o, ImagesOf(o), "DeleteOwner")
DeleteBlog(r, o)      == o \in Blogs /\ Remove(r, o, ImagesOf(o), "DeleteOwner")
DeleteCategory(r, o)  == o \in Categories /\ Remove(r, o, ImagesOf(o), "Answer")

\* Rows of pictures go with their file, and a thumbnail that was one of them
\* is set to null.  The address a blog stores stays.
FilesWithout(S) == file \ S
WithoutThumbnails(S) ==
    [o \in Owners |-> IF o \in FkOwners /\ thumbnail[o] \in S THEN None ELSE thumbnail[o]]

\* removeProductImages leaves the storage alone when it deleted no row,
\* removeAllImages when it read no key.
NothingMuchRemoved(q) == Cardinality(q.batch \cap image) <= 1
NothingRemoved(q) == IF q.then = "Count" THEN q.batch \cap image = {} ELSE q.batch = {}

AfterRemovalAnswer(q) == Idle
AfterRemoval(q) == IF q.then = "DeleteOwner" THEN [q EXCEPT !.at = "DeleteOwner"] ELSE Idle

DeleteFiles(r) ==
    LET q == req[r]  S == q.batch \cap image IN
    /\ q.at = "DeleteFiles" /\ q.id \notin Categories
    /\ file' = FilesWithout(S)
    /\ image' = image \ S
    /\ thumbnail' = WithoutThumbnails(S)
    /\ Goto(r, IF NothingRemoved(q) THEN AfterRemoval(q) ELSE [q EXCEPT !.at = "DeleteObjects"])
    /\ UNCHANGED <<given, exists, ordered, object, up, failures>>

\* The row of an owner takes the rows of its pictures along, not their files.
DropOwner(o, S) ==
    /\ exists' = exists \ {o}
    /\ image' = image \ (S \cup ImagesOf(o))
    /\ thumbnail' = [WithoutThumbnails(S \cup ImagesOf(o)) EXCEPT ![o] = None]

\* deleteCategory deletes files and category in one transaction, and asks the
\* storage even to delete no key, which it refuses.
DeleteFilesAndCategory(r) ==
    LET q == req[r]  S == q.batch \cap image IN
    /\ q.at = "DeleteFiles" /\ q.id \in Categories
    /\ IF q.id \in exists
       THEN /\ file' = FilesWithout(S)
            /\ DropOwner(q.id, S)
            /\ Goto(r, IF q.batch = {} THEN Idle ELSE [q EXCEPT !.at = "DeleteObjects"])
       ELSE Goto(r, Idle) /\ UNCHANGED <<exists, file, image, thumbnail>>
    /\ UNCHANGED <<given, ordered, object, up, failures>>

KeysOf(S) == {up[u].key : u \in S}
DeleteObjects(r) ==
    /\ req[r].at = "DeleteObjects"
    /\ object' = [k \in DOMAIN object \ KeysOf(req[r].batch) |-> object[k]]
    /\ Goto(r, AfterRemoval(req[r]))
    /\ UNCHANGED <<tables, up, failures>>

\* An order detail keeps its product, whose pictures are gone by now.
DeleteOwner(r) ==
    LET o == req[r].id IN
    /\ req[r].at = "DeleteOwner"
    /\ IF o \in exists \ ordered
       THEN DropOwner(o, {})
       ELSE UNCHANGED <<exists, image, thumbnail>>
    /\ Goto(r, Idle)
    /\ UNCHANGED <<given, ordered, file, object, up, failures>>

------------------------------------------------------------------------------
(* The rest of the shop, and failures *)

\* createOrder adds an order detail, which lasts as long as its product.
OrderProduct(o) ==
    /\ o \in (Products \cap exists) \ ordered
    /\ ordered' = ordered \cup {o}
    /\ UNCHANGED <<given, exists, file, image, thumbnail, object, up, req, failures>>

Fail == failures < MaxFailures /\ failures' = failures + 1   \* bound: failures

InProgress == {u \in Uploads : up[u].at \in {"Put", "File", "Image"}}

\* Storage or database turn a call of a pipeline or a handler down.
UploadFails(u) ==
    /\ u \in InProgress /\ Fail /\ Advance(u, "Failed")
    /\ UNCHANGED <<tables, object, req>>
RequestFails(r) ==
    /\ req[r] # Idle /\ Fail /\ Goto(r, Idle)
    /\ UNCHANGED <<tables, object, up>>
Crash ==
    /\ Fail
    /\ up' = [u \in Uploads |-> IF u \in InProgress THEN [up[u] EXCEPT !.at = "Failed"] ELSE up[u]]
    /\ req' = [r \in Requests |-> Idle]
    /\ UNCHANGED <<tables, object>>

UploadStep(u) == PutObject(u) \/ CreateFile(u) \/ CreateImage(u) \/ UploadFails(u)

UploadRequest(r, o) ==
    \/ \E t \in Uploads \cup {None} :
          \/ CreateProductNoImages(r, o, t) \/ UpdateThumbnail(r, o, t)
          \/ CreateCategory(r, o, t) \/ UpdateUserAvatar(r, o, t)
    \/ \E B \in SUBSET Unused : AddProductImages(r, o, B)
    \/ \E B \in SUBSET Unused : \E t \in B \cup {None} : CreateProduct(r, o, B, t) \/ CreateBlog(r, o, B, t)

RemoveRequest(r, o) ==
    \/ \E S \in SUBSET ImagesOf(o) : RemoveProductImages(r, o, S)
    \/ RemoveAllImages(r, o) \/ DeleteProduct(r, o)
    \/ DeleteBlog(r, o) \/ DeleteCategory(r, o)

RequestStep(r) ==
    \/ UploadsDone(r) \/ UploadsFail(r) \/ FindUrl(r) \/ SetThumbnail(r) \/ ThumbnailRefused(r)
    \/ DeleteFiles(r) \/ DeleteFilesAndCategory(r) \/ DeleteObjects(r) \/ DeleteOwner(r)
    \/ RequestFails(r)

Next ==
    \/ \E u \in Uploads : UploadStep(u)
    \/ \E r \in Requests : RequestStep(r) \/ \E o \in Owners : UploadRequest(r, o) \/ RemoveRequest(r, o)
    \/ \E o \in Products : OrderProduct(o)
    \/ Crash

Spec == Init /\ [][Next]_vars

------------------------------------------------------------------------------
(* What must hold *)

\* A picture an owner shows never breaks: its object is in storage and is the
\* file sent with it, whatever uploads, removals and failures interleave (the
\* files of a request having different names).
PicturesShow ==
    \A u \in image : up[u].key \in DOMAIN object /\ object[up[u].key] = u

\* While nothing failed no object is forgotten: it has its row, its upload is
\* about to make one, or a removal under way is about to delete it.
ObjectsAccounted ==
    failures = 0 => \A k \in DOMAIN object :
        \/ object[k] \in file
        \/ up[object[k]].at = "File"
        \/ \E r \in Requests : req[r].at = "DeleteObjects" /\ k \in KeysOf(req[r].batch)

\* While nothing failed a row in uploaded_files that is no owner's picture is
\* one in the making or left by an owner deleted meanwhile.
StrayFiles ==
    failures = 0 => \A u \in file \ image : up[u].at = "Image" \/ up[u].owner \notin exists

\* Nothing uploaded is forgotten while nothing fails.
NothingForgotten == ObjectsAccounted /\ StrayFiles

\* The address a blog stores is no foreign key: while nothing failed it leads
\* to an object, unless a deletion of the blog is on its way.
BlogThumbnailAlive ==
    failures = 0 => \A b \in Blogs \cap exists :
        thumbnail[b] # None =>
            \/ up[thumbnail[b]].key \in DOMAIN object
            \/ \E r \in Requests : req[r] # Idle /\ req[r].id = b /\ req[r].then = "DeleteOwner"
=============================================================================
