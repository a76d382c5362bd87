--------------------------- MODULE GalleryProofs ---------------------------
(***************************************************************************)
(* Proofs about Gallery, for every number of categories, products, images  *)
(* and requests.  A file belongs to the one upload that brought it: until  *)
(* that upload inserts its rows nobody else knows of the file, and from    *)
(* then on its row points at the product of the upload or is gone.         *)
(***************************************************************************)
EXTENDS Gallery, FiniteSetTheorems, TLAPS

\* The requests, as TypeOK has them.
CallType ==
  [op : Op, step : Step, category : Category \cup {NoCategory},
   name : Name \cup {NoName}, product : Product \cup {NoProduct},
   images : SUBSET Image, seen : SUBSET Image, todo : SUBSET Image]

UploadOp  == {"createProduct", "addImages"}
RemovalOp == {"removeProduct", "removeImage"}

\* What a request holds when it comes to a step.
Fits(c) ==
  /\ c.step = "unused" => c = Unused
  /\ c.op = "none" => c.step = "unused"
  /\ c.step = "saveCategory" =>
       /\ c.op \in {"createCategory", "updateCategory"} /\ c.name \in Name
       /\ c.op = "updateCategory" => c.category \in Category
  /\ c.step = "deleteCategory" => c.op = "removeCategory" /\ c.category \in Category
  /\ c.step \in {"findCategory", "saveProduct"} =>
       /\ c.op \in {"createProduct", "updateProduct"} /\ c.category \in Category
       /\ c.op = "updateProduct" => c.product \in Product
  /\ c.step = "load" => c.op = "addImages" /\ c.product \in Product
  /\ c.step = "saveImages" => c.op \in UploadOp /\ c.product \in Product
  /\ c.step \in {"deleteFiles", "deleteRow"} => c.op \in RemovalOp
  /\ c.op \in RemovalOp =>
       c.product \in Product /\ c.step \in {"deleteFiles", "deleteRow", "ok", "stopped"}
  /\ c.op \in UploadOp /\ c.step = "ok" /\ c.images # {} => c.product \in Product
  /\ c.op \notin UploadOp \cup RemovalOp => c.images = {}
  /\ c.op # "addImages" \/ c.step = "load" => c.seen = {}
CallsFit == \A r \in Request : Fits(call[r])

Upload(r)   == call[r].op \in UploadOp
Removal(r)  == call[r].op \in RemovalOp
Pending(r)  == Upload(r) /\ call[r].step \in {"findCategory", "load", "saveProduct", "saveImages"}
Uploaded(r) == Upload(r) /\ At(r, "ok")

\* Files are numbered in the order they are stored, an upload's in a row, and
\* belong to no other upload.
FilesInOrder ==
  \E k \in 0 .. NumImages : \A i \in Image : file[i] # "none" <=> i <= k
UploadsInARow ==
  \A u \in Request : Upload(u) =>
    \E a, n \in Nat : call[u].images = a + 1 .. a + n
UploadsApart ==
  \A u, v \in Request : \A i \in Image :
    Upload(u) /\ Upload(v) /\ i \in call[u].images /\ i \in call[v].images => u = v

\* Nobody knows of a file that was not uploaded yet, and nobody but its upload
\* of one that has no row yet.
FilesKnown ==
  \A i \in Image : file[i] = "none" =>
    row[i] = NoProduct /\ \A r \in Request : i \notin call[r].images \cup call[r].seen
PendingUnseen ==
  \A u \in Request : \A i \in Image : Pending(u) /\ i \in call[u].images =>
    /\ file[i] = "stored" /\ row[i] = NoProduct
    /\ \A r \in Request : i \notin call[r].seen /\ (Removal(r) => i \notin call[r].images)

\* Images that are shown, or were when an upload looked, are of an upload to
\* the product.
RowsUploaded ==
  \A i \in Image : row[i] # NoProduct =>
    \E u \in Request : Uploaded(u) /\ call[u].product = row[i] /\ i \in call[u].images
SeenUploaded ==
  \A r \in Request : \A i \in call[r].seen :
    \E u \in Request :
      Uploaded(u) /\ call[u].product = call[r].product /\ i \in call[u].images

\* The rows of an upload, and those a removal of a product found, are of that
\* product or gone.
RowsOfProduct ==
  \A r \in Request : Uploaded(r) \/ call[r].op = "removeProduct" =>
    \A i \in call[r].images : row[i] \in {call[r].product, NoProduct}

\* A removal deletes every file of its images before their rows.
FilesBeforeRows ==
  \A r \in Request : Removal(r) =>
    /\ call[r].todo \subseteq call[r].images
    /\ \A i \in call[r].images \ call[r].todo : file[i] = "deleted"
    /\ call[r].step \in {"deleteRow", "ok"} => call[r].todo = {}

\* A primary image was the first of its product.
PrimaryAtFront == \A i \in Image : primary[i] => position[i] = 0

\* The inductive invariant.
IInv ==
  /\ TypeOK
  /\ CallsFit
  /\ ProductsHaveCategories
  /\ FilesInOrder /\ UploadsInARow /\ UploadsApart
  /\ FilesKnown /\ PendingUnseen
  /\ RowsUploaded /\ SeenUploaded /\ RowsOfProduct
  /\ FilesBeforeRows
  /\ BrokenImagesAreBeingRemoved /\ NoFileForgotten
  /\ PrimaryAtFront /\ GalleryInOrder

-----------------------------------------------------------------------------
(* Finite sets of images.                                                  *)

\* Sets of images are finite.
LEMMA ImagesFinite ==
  ASSUME NEW I \in SUBSET Image
  PROVE  IsFiniteSet(I) /\ Cardinality(I) \in Nat
<1>1. IsFiniteSet(Image)
  BY NumImagesAssumption, FS_Interval DEF Image
<1> QED
  BY <1>1, FS_Subset, FS_CardinalityType

\* The files of a new upload are the ones after those there are.
LEMMA FreshFiles ==
  ASSUME FilesInOrder, NEW n \in Nat
  PROVE  \E k \in 0 .. NumImages :
           /\ \A i \in Image : file[i] # "none" <=> i <= k
           /\ Fresh(n) = k + 1 .. k + n
<1>1. PICK k \in 0 .. NumImages : \A i \in Image : file[i] # "none" <=> i <= k
  BY DEF FilesInOrder
<1>2. {i \in Image : file[i] # "none"} = 1 .. k
  BY <1>1, NumImagesAssumption DEF Image
<1>3. Cardinality(1 .. k) = k
  BY <1>1, FS_Interval, NumImagesAssumption
<1> QED
  BY <1>1, <1>2, <1>3 DEF Fresh

\* The images of an upload have the indexes 0 to n - 1.
LEMMA IndexesInARow ==
  ASSUME TypeOK, NEW u \in Request, NEW a \in Nat, NEW n \in Nat,
         call[u].images = a + 1 .. a + n
  PROVE  \A i \in call[u].images : IndexIn(u, i) = i - a - 1
<1> SUFFICES ASSUME NEW i \in call[u].images
             PROVE  IndexIn(u, i) = i - a - 1
  OBVIOUS
<1>1. i \in Nat /\ a + 1 <= i /\ i <= a + n
  OBVIOUS
<1>2. {j \in call[u].images : j < i} = a + 1 .. i - 1
  BY <1>1
<1>3. Cardinality(a + 1 .. i - 1) = i - a - 1
  BY <1>1, FS_Interval
<1> QED
  BY <1>2, <1>3 DEF IndexIn

-----------------------------------------------------------------------------
(* Types, and what a request holds.                                        *)

\* The initial states satisfy the invariant.
LEMMA InvInit == Init => IInv
<1> SUFFICES ASSUME Init
             PROVE  IInv
  OBVIOUS
<1>1. TypeOK
  BY DEF Init, TypeOK, Unused, Step, Op
<1>2. CallsFit
  BY DEF Init, CallsFit, Fits, Unused, UploadOp, RemovalOp
<1>3. ProductsHaveCategories
  BY DEF Init, ProductsHaveCategories, ProductExists, CategoryExists
<1>4. FilesInOrder
  <2>1. 0 \in 0 .. NumImages /\ \A i \in Image : file[i] # "none" <=> i <= 0
    BY NumImagesAssumption DEF Init, Image
  <2> QED
    BY <2>1 DEF FilesInOrder
<1>5. UploadsInARow /\ UploadsApart /\ FilesKnown /\ PendingUnseen
  BY DEF Init, UploadsInARow, UploadsApart, FilesKnown, PendingUnseen, Unused, Upload,
     Removal, Pending, UploadOp, RemovalOp
<1>6. RowsUploaded /\ SeenUploaded /\ RowsOfProduct /\ FilesBeforeRows
  BY DEF Init, RowsUploaded, SeenUploaded, RowsOfProduct, FilesBeforeRows, Unused, Upload,
     Removal, Uploaded, UploadOp, RemovalOp
<1>7. BrokenImagesAreBeingRemoved /\ NoFileForgotten /\ PrimaryAtFront
  BY DEF Init, BrokenImagesAreBeingRemoved, NoFileForgotten, PrimaryAtFront, Unused
<1>8. GalleryInOrder
  <2>1. \A p \in Product : ImagesOf(p) = {}
    BY NoRowAssumption DEF Init, ImagesOf
  <2> QED
    BY <2>1 DEF GalleryInOrder
<1> QED
  BY <1>1, <1>2, <1>3, <1>4, <1>5, <1>6, <1>7, <1>8 DEF IInv

\* A request that only goes on to its next step keeps its type.
LEMMA GotoType ==
  ASSUME TypeOK, NEW r \in Request, NEW s \in Step, Goto(r, s)
  PROVE  call' \in [Request -> CallType]
<1>1. call \in [Request -> CallType]
  BY DEF TypeOK, CallType
<1>2. [call[r] EXCEPT !.step = s] \in CallType
  BY <1>1 DEF CallType
<1> QED
  BY <1>1, <1>2 DEF Goto

\* Every step keeps the types.
LEMMA TypeStep == TypeOK /\ CallsFit /\ [Next]_vars => TypeOK'
<1> SUFFICES ASSUME TypeOK, CallsFit, [Next]_vars
             PROVE  TypeOK'
  OBVIOUS
<1> USE DEF TypeOK, Step, Op, imageVars, Begin, Goto, At
<1>1. ASSUME NEW r \in Request, NEW n \in Name, CreateCategory(r, n)
      PROVE  TypeOK'
  BY <1>1 DEF CreateCategory, Unused
<1>2. ASSUME NEW r \in Request, NEW c \in Category, NEW n \in Name \cup {Keep},
             UpdateCategory(r, c, n)
      PROVE  TypeOK'
  BY <1>2 DEF UpdateCategory, Unused
<1>3. ASSUME NEW r \in Request, NEW c \in Category, RemoveCategory(r, c)
      PROVE  TypeOK'
  BY <1>3 DEF RemoveCategory, Unused
<1>4. ASSUME NEW r \in Request, SaveCategory(r)
      PROVE  TypeOK'
  BY <1>4 DEF SaveCategory
<1>5. ASSUME NEW r \in Request, DeleteCategory(r)
      PROVE  TypeOK'
  BY <1>5 DEF DeleteCategory
<1>6. ASSUME NEW r \in Request, NEW c \in Category, NEW n \in 0 .. MaxFiles,
             CreateProduct(r, c, n)
      PROVE  TypeOK'
  BY <1>6 DEF CreateProduct, Unused, Store, HasRoom
<1>7. ASSUME NEW r \in Request, NEW p \in Product, NEW c \in Category \cup {Keep},
             UpdateProduct(r, p, c)
      PROVE  TypeOK'
  BY <1>7 DEF UpdateProduct, Unused
<1>8. ASSUME NEW r \in Request, NEW p \in Product, NEW n \in 1 .. MaxFiles,
             AddImages(r, p, n)
      PROVE  TypeOK'
  BY <1>8 DEF AddImages, Unused, Store, HasRoom
<1>9. ASSUME NEW r \in Request, NEW p \in Product, RemoveProduct(r, p)
      PROVE  TypeOK'
  BY <1>9 DEF RemoveProduct, BeginRemoval, Unused, FilesOf, ImagesOf
<1>10. ASSUME NEW r \in Request, NEW i \in Image, RemoveImage(r, i)
       PROVE  TypeOK'
  BY <1>10 DEF RemoveImage, BeginRemoval, Unused, FilesOf
<1>11. ASSUME NEW r \in Request, FindCategory(r) \/ FilesDeleted(r) \/ Stop(r)
       PROVE  TypeOK'
  <2>1. PICK s \in Step : Goto(r, s)
    BY <1>11 DEF FindCategory, FilesDeleted, Stop
  <2> QED
    BY <1>11, <2>1 DEF FindCategory, FilesDeleted, Stop
<1>12. ASSUME NEW r \in Request, SaveProduct(r)
       PROVE  TypeOK'
  BY <1>12 DEF SaveProduct
<1>13. ASSUME NEW r \in Request, Load(r)
       PROVE  TypeOK'
  BY <1>13 DEF Load, ImagesOf
<1>14. ASSUME NEW r \in Request, SaveImages(r)
       PROVE  TypeOK'
  <2>1. \A i \in Image : Position(r, i) \in Nat /\ IsPrimary(r, i) \in BOOLEAN
    BY ImagesFinite DEF Position, IndexIn, IsPrimary
  <2>2. call[r].product \in Product
    BY <1>14 DEF SaveImages, CallsFit, Fits
  <2> QED
    BY <1>14, <2>1, <2>2 DEF SaveImages
<1>15. ASSUME NEW r \in Request, NEW i \in Image, DeleteFile(r, i)
       PROVE  TypeOK'
  <2>1. call[r].todo \ {i} \in SUBSET Image
    OBVIOUS
  <2> QED
    BY <1>15, <2>1 DEF DeleteFile
<1>16. ASSUME NEW r \in Request, DeleteRow(r)
       PROVE  TypeOK'
  <2>1. categoryOf' \in [Product -> Category \cup {NoCategory}]
    BY <1>16 DEF DeleteRow
  <2>2. row' \in [Image -> Product \cup {NoProduct}]
    BY <1>16 DEF DeleteRow
  <2>3. Goto(r, "ok") /\ UNCHANGED <<name, primary, position, file>>
    BY <1>16 DEF DeleteRow
  <2>4. call' \in [Request -> CallType]
    BY <2>3, GotoType
  <2> QED
    BY <2>1, <2>2, <2>3, <2>4 DEF CallType
<1>17. CASE UNCHANGED vars
  BY <1>17 DEF vars
<1> QED
  BY <1>1, <1>2, <1>3, <1>4, <1>5, <1>6, <1>7, <1>8, <1>9, <1>10, <1>11, <1>12, <1>13,
     <1>14, <1>15, <1>16, <1>17 DEF Next, CategoryRequest, ProductRequest

\* Every step leaves its request with what the next one needs, and no step
\* touches two requests.
LEMMA CallsStep == TypeOK /\ CallsFit /\ [Next]_vars => CallsFit'
<1> SUFFICES ASSUME TypeOK, CallsFit, [Next]_vars
             PROVE  CallsFit'
  OBVIOUS
<1>t. TypeOK'
  BY TypeStep
<1>o. ASSUME NEW r \in Request, NEW c, call' = [call EXCEPT ![r] = c], Fits(c)
      PROVE  CallsFit'
  BY <1>o DEF CallsFit, TypeOK
<1> USE NoRowAssumption, KeepAssumption DEF Begin, Goto, At, UploadOp, RemovalOp
<1>1. ASSUME NEW r \in Request, NEW n \in Name, CreateCategory(r, n)
      PROVE  CallsFit'
  <2> DEFINE c == [Unused EXCEPT !.op = "createCategory", !.step = "saveCategory", !.name = n]
  <2>1. Fits(c)
    BY DEF Fits, Unused
  <2> QED
    BY <1>1, <1>o, <2>1 DEF CreateCategory
<1>2. ASSUME NEW r \in Request, NEW c \in Category, NEW n \in Name \cup {Keep},
             UpdateCategory(r, c, n)
      PROVE  CallsFit'
  <2> DEFINE d == [Unused EXCEPT !.op = "updateCategory", !.step = "saveCategory",
                     !.name = IF n = Keep THEN name[c] ELSE n, !.category = c]
  <2>1. Fits(d)
    BY <1>2 DEF UpdateCategory, CategoryExists, Fits, Unused, TypeOK
  <2> QED
    BY <1>2, <1>o, <2>1 DEF UpdateCategory
<1>3. ASSUME NEW r \in Request, NEW c \in Category, RemoveCategory(r, c)
      PROVE  CallsFit'
  <2> DEFINE d == [Unused EXCEPT !.op = "removeCategory", !.step = "deleteCategory",
                     !.category = c]
  <2>1. Fits(d)
    BY DEF Fits, Unused
  <2> QED
    BY <1>3, <1>o, <2>1 DEF RemoveCategory
<1>4. ASSUME NEW r \in Request, NEW c \in Category, NEW n \in 0 .. MaxFiles,
             CreateProduct(r, c, n)
      PROVE  CallsFit'
  <2> DEFINE d == [Unused EXCEPT !.op = "createProduct", !.step = "findCategory",
                     !.category = c, !.images = Fresh(n)]
  <2>1. Fits(d)
    BY DEF Fits, Unused
  <2> QED
    BY <1>4, <1>o, <2>1 DEF CreateProduct
<1>5. ASSUME NEW r \in Request, NEW p \in Product, NEW c \in Category \cup {Keep},
             UpdateProduct(r, p, c)
      PROVE  CallsFit'
  <2> DEFINE d == [Unused EXCEPT !.op = "updateProduct", !.product = p,
                     !.step = IF c = Keep THEN "saveProduct" ELSE "findCategory",
                     !.category = IF c = Keep THEN categoryOf[p] ELSE c]
  <2>1. Fits(d)
    BY <1>5 DEF UpdateProduct, ProductExists, Fits, Unused, TypeOK
  <2> QED
    BY <1>5, <1>o, <2>1 DEF UpdateProduct
<1>6. ASSUME NEW r \in Request, NEW p \in Product, NEW n \in 1 .. MaxFiles,
             AddImages(r, p, n)
      PROVE  CallsFit'
  <2> DEFINE d == [Unused EXCEPT !.op = "addImages", !.step = "load", !.product = p,
                     !.images = Fresh(n)]
  <2>1. Fits(d)
    BY DEF Fits, Unused
  <2> QED
    BY <1>6, <1>o, <2>1 DEF AddImages
<1>7. ASSUME NEW r \in Request, NEW p \in Product, NEW o \in RemovalOp, NEW I,
             BeginRemoval(r, o, p, I)
      PROVE  CallsFit'
  <2> DEFINE d == [Unused EXCEPT !.op = o, !.step = "deleteFiles", !.product = p,
                     !.images = I, !.todo = FilesOf(I)]
  <2>1. Fits(d)
    BY DEF Fits, Unused
  <2> QED
    BY <1>7, <1>o, <2>1 DEF BeginRemoval
<1>8. ASSUME NEW r \in Request, SaveCategory(r)
      PROVE  CallsFit'
  <2>1. Fits([call[r] EXCEPT !.step = "failed"])
    BY <1>8 DEF SaveCategory, CallsFit, Fits, TypeOK
  <2>2. ASSUME NEW c \in Category
        PROVE  Fits([call[r] EXCEPT !.step = "ok", !.category = c])
    BY <1>8 DEF SaveCategory, CallsFit, Fits, TypeOK
  <2>3. \/ call' = [call EXCEPT ![r] = [call[r] EXCEPT !.step = "failed"]]
        \/ \E c \in Category :
             call' = [call EXCEPT ![r] = [call[r] EXCEPT !.step = "ok", !.category = c]]
    BY <1>8 DEF SaveCategory, TypeOK
  <2> QED
    BY <1>o, <2>1, <2>2, <2>3
<1>9. ASSUME NEW r \in Request, NEW s \in Step, Goto(r, s),
             \/ DeleteCategory(r) \/ FindCategory(r) \/ FilesDeleted(r) \/ DeleteRow(r)
             \/ SaveImages(r) \/ Load(r) \/ Stop(r)
      PROVE  CallsFit'
  <2>1. Fits([call[r] EXCEPT !.step = s])
    BY <1>9 DEF DeleteCategory, FindCategory, FilesDeleted, DeleteRow, SaveImages, Load, Stop,
       CallsFit, Fits, TypeOK, Step
  <2> QED
    BY <1>9, <1>o, <2>1
<1>10. ASSUME NEW r \in Request, SaveProduct(r)
       PROVE  CallsFit'
  <2>1. Fits([call[r] EXCEPT !.step = "failed"])
    BY <1>10 DEF SaveProduct, CallsFit, Fits, TypeOK
  <2>2. ASSUME NEW p \in Product
        PROVE  Fits([call[r] EXCEPT !.product = p,
                       !.step = IF call[r].images = {} THEN "ok" ELSE "saveImages"])
    BY <1>10 DEF SaveProduct, CallsFit, Fits, TypeOK
  <2>3. \/ call' = [call EXCEPT ![r] = [call[r] EXCEPT !.step = "failed"]]
        \/ \E p \in Product :
             call' = [call EXCEPT ![r] = [call[r] EXCEPT !.product = p,
                        !.step = IF call[r].images = {} THEN "ok" ELSE "saveImages"]]
    BY <1>10 DEF SaveProduct, TypeOK
  <2> QED
    BY <1>o, <2>1, <2>2, <2>3
<1>11. ASSUME NEW r \in Request, Load(r), ~\E s \in Step : Goto(r, s)
       PROVE  CallsFit'
  <2> DEFINE d == [call[r] EXCEPT !.step = "saveImages", !.seen = ImagesOf(call[r].product)]
  <2>1. Fits(d)
    BY <1>11 DEF Load, CallsFit, Fits, TypeOK
  <2>2. call' = [call EXCEPT ![r] = d]
    BY <1>11 DEF Load, TypeOK, Step
  <2> QED
    BY <1>o, <2>1, <2>2
<1>12. ASSUME NEW r \in Request, NEW i \in Image, DeleteFile(r, i)
       PROVE  CallsFit'
  <2> DEFINE d == [call[r] EXCEPT !.todo = @ \ {i}]
  <2>1. Fits(d)
    BY <1>12 DEF DeleteFile, CallsFit, Fits, TypeOK
  <2>2. call' = [call EXCEPT ![r] = d]
    BY <1>12 DEF DeleteFile, TypeOK
  <2> QED
    BY <1>o, <2>1, <2>2
<1>13. ASSUME NEW r \in Request,
              \/ \E p \in Product : RemoveProduct(r, p)
              \/ \E i \in Image : RemoveImage(r, i)
       PROVE  CallsFit'
  BY <1>7, <1>13 DEF RemoveProduct, RemoveImage, TypeOK
<1>14. ASSUME NEW r \in Request,
              \/ DeleteCategory(r) \/ FindCategory(r) \/ FilesDeleted(r) \/ DeleteRow(r)
              \/ SaveImages(r) \/ Stop(r)
       PROVE  \E s \in Step : Goto(r, s)
  BY <1>14 DEF DeleteCategory, FindCategory, FilesDeleted, DeleteRow, SaveImages, Stop, Step
<1>15. CASE UNCHANGED vars
  BY <1>15 DEF vars, CallsFit
<1> QED
  BY <1>1, <1>2, <1>3, <1>4, <1>5, <1>6, <1>8, <1>9, <1>10, <1>11, <1>12, <1>13, <1>14, <1>15
     DEF Next, CategoryRequest, ProductRequest

-----------------------------------------------------------------------------
(* Categories: a product is saved and a category deleted by one statement  *)
(* that the foreign key checks, and no update takes a category its name.   *)

\* No step leaves a product in a category that is gone.
LEMMA CategoriesStep ==
  TypeOK /\ CallsFit /\ ProductsHaveCategories /\ [Next]_vars => ProductsHaveCategories'
<1> SUFFICES ASSUME TypeOK, CallsFit, ProductsHaveCategories, [Next]_vars
             PROVE  ProductsHaveCategories'
  OBVIOUS
<1> USE NoRowAssumption DEF TypeOK, ProductsHaveCategories, ProductExists, CategoryExists, At
<1>1. ASSUME NEW r \in Request, SaveCategory(r)
      PROVE  ProductsHaveCategories'
  BY <1>1 DEF SaveCategory, CallsFit, Fits
<1>2. ASSUME NEW r \in Request, DeleteCategory(r)
      PROVE  ProductsHaveCategories'
  BY <1>2 DEF DeleteCategory, Restricted, ProductsIn
<1>3. ASSUME NEW r \in Request, SaveProduct(r)
      PROVE  ProductsHaveCategories'
  BY <1>3 DEF SaveProduct
<1>4. ASSUME NEW r \in Request, DeleteRow(r)
      PROVE  ProductsHaveCategories'
  BY <1>4 DEF DeleteRow
<1>5. CASE UNCHANGED <<name, categoryOf>>
  BY <1>5
<1> QED
  BY <1>1, <1>2, <1>3, <1>4, <1>5
     DEF Next, CategoryRequest, ProductRequest, CreateCategory, UpdateCategory, RemoveCategory,
         CreateProduct, UpdateProduct, AddImages, RemoveProduct, RemoveImage, FindCategory,
         FilesDeleted, Stop, Load, SaveImages, DeleteFile, vars

-----------------------------------------------------------------------------
(* What a step does to the images and their files.                         *)

\* It is of a request that has nothing to do with images.
Aside(r) ==
  /\ UNCHANGED <<imageVars, file>>
  /\ ~Upload(r) /\ ~Removal(r) /\ ~Upload(r)' /\ ~Removal(r)'

\* It takes an upload or a removal on, or ends it, and changes no image.
GoesOn(r) ==
  /\ UNCHANGED <<imageVars, file>>
  /\ call'[r].op = call[r].op /\ call'[r].images = call[r].images
  /\ call'[r].seen = call[r].seen /\ call'[r].todo = call[r].todo
  /\ \/ /\ Upload(r)
        /\ Pending(r)' => Pending(r)
        /\ ~Uploaded(r)
        /\ Uploaded(r)' => call[r].images = {}
        /\ call'[r].product # call[r].product => call[r].op = "createProduct"
     \/ /\ Removal(r)
        /\ call'[r].product = call[r].product
        /\ call[r].step \in {"deleteFiles", "deleteRow"}
        /\ call'[r].step \in {"deleteRow", "stopped"}
        /\ At(r, "deleteRow")' => call[r].todo = {}

BeginsUpload(r) ==
  /\ call[r] = Unused
  /\ \E n \in Nat : HasRoom(n) /\ Store(Fresh(n)) /\ call'[r].images = Fresh(n)
  /\ Pending(r)' /\ call'[r].seen = {}
  /\ UNCHANGED imageVars

\* What the other kinds leave of the request as it was.
Keeps(r) ==
  /\ call'[r].op = call[r].op /\ call'[r].images = call[r].images
  /\ call'[r].product = call[r].product

Looks(r) ==
  /\ Keeps(r) /\ Pending(r) /\ Pending(r)' /\ call[r].product \in Product
  /\ call'[r].seen = ImagesOf(call[r].product)
  /\ UNCHANGED <<imageVars, file>>

Inserts(r) ==
  /\ Keeps(r) /\ call'[r].seen = call[r].seen
  /\ Pending(r) /\ At(r, "saveImages") /\ At(r, "ok")'
  /\ LET I == call[r].images
     IN /\ row' = [i \in Image |-> IF i \in I THEN call[r].product ELSE row[i]]
        /\ primary' = [i \in Image |-> IF i \in I THEN IsPrimary(r, i) ELSE primary[i]]
        /\ position' = [i \in Image |-> IF i \in I THEN Position(r, i) ELSE position[i]]
  /\ UNCHANGED file

BeginsRemoval(r) ==
  /\ call[r] = Unused
  /\ UNCHANGED <<imageVars, file>>
  /\ Removal(r)' /\ At(r, "deleteFiles")'
  /\ call'[r].seen = {} /\ call'[r].todo = call'[r].images
  /\ \/ call'[r].op = "removeProduct" /\ call'[r].images = ImagesOf(call'[r].product)
     \/ call'[r].op = "removeImage"
        /\ \E i \in Image : row[i] # NoProduct /\ call'[r].images = {i}

DeletesFile(r) ==
  /\ Keeps(r) /\ call'[r].seen = call[r].seen
  /\ Removal(r) /\ At(r, "deleteFiles") /\ At(r, "deleteFiles")'
  /\ \E i \in call[r].todo :
       /\ call'[r].todo = call[r].todo \ {i}
       /\ file' = [file EXCEPT ![i] = "deleted"]
  /\ UNCHANGED imageVars

DeletesRows(r) ==
  /\ Keeps(r) /\ call'[r].seen = call[r].seen
  /\ call'[r].todo = call[r].todo
  /\ Removal(r) /\ At(r, "deleteRow") /\ At(r, "ok")'
  /\ row' = [i \in Image |-> IF i \in Gone(r) THEN NoProduct ELSE row[i]]
  /\ UNCHANGED <<primary, position, file>>

\* Every step is one of these, of one request.
ImageStep(r) ==
  /\ \A s \in Request : s # r => call'[s] = call[s]
  /\ \/ Aside(r) \/ GoesOn(r) \/ BeginsUpload(r) \/ Looks(r) \/ Inserts(r)
     \/ BeginsRemoval(r) \/ DeletesFile(r) \/ DeletesRows(r)

\* No step is of another kind.
LEMMA StepKinds ==
  ASSUME TypeOK, CallsFit, Next
  PROVE  \E r \in Request : ImageStep(r)
<1>t. TypeOK' /\ CallsFit'
  BY TypeStep, CallsStep
<1>1. PICK r \in Request : CategoryRequest(r) \/ ProductRequest(r) \/ Stop(r)
  BY DEF Next
<1>o. \A s \in Request : s # r => call'[s] = call[s]
  BY <1>1 DEF TypeOK, Begin, Goto, CategoryRequest, ProductRequest, CreateCategory,
     UpdateCategory, RemoveCategory, SaveCategory, DeleteCategory, CreateProduct, UpdateProduct,
     AddImages, RemoveProduct, RemoveImage, BeginRemoval, FindCategory, SaveProduct, Load,
     SaveImages, DeleteFile, FilesDeleted, DeleteRow, Stop
<1>b. \A c : call' = [call EXCEPT ![r] = c] => call'[r] = c
  BY DEF TypeOK
<1> USE DEF Goto, At, Upload, Removal, UploadOp, RemovalOp
<1>2. CASE CategoryRequest(r) \/ \E p \in Product, c \in Category \cup {Keep} :
                                   UpdateProduct(r, p, c)
  <2>1. UNCHANGED <<imageVars, file>>
    BY <1>2 DEF CategoryRequest, CreateCategory, UpdateCategory, RemoveCategory, SaveCategory,
       DeleteCategory, UpdateProduct
  <2>2. CASE \/ \E n \in Name : CreateCategory(r, n)
             \/ \E c \in Category, n \in Name \cup {Keep} : UpdateCategory(r, c, n)
             \/ \E c \in Category : RemoveCategory(r, c)
             \/ \E p \in Product, c \in Category \cup {Keep} : UpdateProduct(r, p, c)
    <3>1. call[r] = Unused /\ Unused.op = "none"
      <4>1. call[r] = Unused
        BY <2>2 DEF Begin, CreateCategory, UpdateCategory, RemoveCategory, UpdateProduct
      <4> QED
        BY <4>1 DEF Unused
    <3>2. call'[r].op \in
            {"createCategory", "updateCategory", "removeCategory", "updateProduct"}
      <4>1. CASE \E n \in Name : CreateCategory(r, n)
        BY <1>b, <4>1 DEF Begin, CreateCategory, Unused
      <4>2. CASE \E c \in Category, n \in Name \cup {Keep} : UpdateCategory(r, c, n)
        BY <1>b, <4>2 DEF Begin, UpdateCategory, Unused
      <4>3. CASE \E c \in Category : RemoveCategory(r, c)
        BY <1>b, <4>3 DEF Begin, RemoveCategory, Unused
      <4>4. CASE \E p \in Product, c \in Category \cup {Keep} : UpdateProduct(r, p, c)
        <5>1. PICK p \in Product, c \in Category \cup {Keep} : UpdateProduct(r, p, c)
          BY <4>4
        <5> DEFINE d == [Unused EXCEPT !.op = "updateProduct", !.product = p,
                           !.step = IF c = Keep THEN "saveProduct" ELSE "findCategory",
                           !.category = IF c = Keep THEN categoryOf[p] ELSE c]
        <5>2. call' = [call EXCEPT ![r] = d]
          BY <5>1 DEF Begin, UpdateProduct
        <5>3. d.op = "updateProduct"
          BY DEF Unused
        <5> HIDE DEF d
        <5> QED
          BY <1>b, <5>2, <5>3
      <4> QED
        BY <2>2, <4>1, <4>2, <4>3, <4>4
    <3> QED
      BY <1>o, <2>1, <3>1, <3>2 DEF ImageStep, Aside
  <2>3. CASE SaveCategory(r)
    BY <1>o, <2>1, <2>3 DEF ImageStep, SaveCategory, CallsFit, Fits, TypeOK, Aside
  <2>4. CASE DeleteCategory(r)
    BY <1>o, <2>1, <2>4 DEF ImageStep, DeleteCategory, CallsFit, Fits, TypeOK, Aside
  <2> QED
    BY <1>2, <1>o, <2>2, <2>3, <2>4 DEF ImageStep, CategoryRequest
<1>3. ASSUME NEW n \in Nat,
             \/ \E c \in Category : CreateProduct(r, c, n)
             \/ \E p \in Product : AddImages(r, p, n)
      PROVE  BeginsUpload(r)
  <2>1. call[r] = Unused /\ HasRoom(n) /\ Store(Fresh(n)) /\ UNCHANGED imageVars
    BY <1>3, <1>b DEF Begin, CreateProduct, AddImages
  <2>2. call'[r].images = Fresh(n) /\ Pending(r)' /\ call'[r].seen = {}
    <3>1. CASE \E c \in Category : CreateProduct(r, c, n)
      BY <3>1, <1>b DEF Begin, CreateProduct, Unused, Pending
    <3>2. CASE \E p \in Product : AddImages(r, p, n)
      BY <3>2, <1>b DEF Begin, AddImages, Unused, Pending
    <3> QED
      BY <1>3, <3>1, <3>2
  <2> QED
    BY <2>1, <2>2 DEF BeginsUpload
<1>4. CASE FindCategory(r)
  BY <1>o, <1>4
     DEF ImageStep, FindCategory, CallsFit, Fits, TypeOK, Aside, GoesOn, Pending, Uploaded
<1>5. CASE SaveProduct(r)
  BY <1>o, <1>5 DEF ImageStep, SaveProduct, CallsFit, Fits, TypeOK, Aside, GoesOn, Pending, Uploaded
<1>6. CASE Load(r)
  <2>1. At(r, "load") /\ call[r].op = "addImages" /\ call[r].product \in Product
    BY <1>6 DEF Load, CallsFit, Fits
  <2>2. CASE ProductExists(call[r].product)
    <3>1. call' = [call EXCEPT ![r].step = "saveImages", ![r].seen = ImagesOf(call[r].product)]
      BY <1>6, <2>2 DEF Load
    <3>2. /\ Keeps(r) /\ call'[r].step = "saveImages"
          /\ call'[r].seen = ImagesOf(call[r].product)
      BY <3>1 DEF TypeOK, Keeps
    <3> QED
      BY <1>o, <1>6, <2>1, <3>2 DEF ImageStep, Load, Looks, Pending, Keeps
  <2>3. CASE ~ProductExists(call[r].product)
    BY <1>o, <1>6, <2>1, <2>3 DEF ImageStep, Load, TypeOK, GoesOn, Pending, Uploaded
  <2> QED
    BY <2>2, <2>3
<1>7. CASE SaveImages(r)
  <2>1. At(r, "saveImages") /\ Pending(r)
    BY <1>7 DEF SaveImages, CallsFit, Fits, Pending
  <2>2. CASE ProductExists(call[r].product)
    BY <1>o, <1>7, <2>1, <2>2 DEF ImageStep, SaveImages, TypeOK, Inserts, Keeps
  <2>3. CASE ~ProductExists(call[r].product)
    BY <1>o, <1>7, <2>1, <2>3 DEF ImageStep, SaveImages, TypeOK, GoesOn, Pending, Uploaded
  <2> QED
    BY <2>2, <2>3
<1>8. CASE (\E p \in Product : RemoveProduct(r, p)) \/ \E i \in Image : RemoveImage(r, i)
  <2>1. ASSUME NEW p \in Product, RemoveProduct(r, p)
        PROVE  BeginsRemoval(r)
    <3> DEFINE d == [Unused EXCEPT !.op = "removeProduct", !.step = "deleteFiles",
                       !.product = p, !.images = ImagesOf(p), !.todo = FilesOf(ImagesOf(p))]
    <3>1. /\ call[r] = Unused /\ UNCHANGED <<imageVars, file>>
          /\ call' = [call EXCEPT ![r] = d]
      BY <2>1 DEF Begin, RemoveProduct, BeginRemoval
    <3>2. /\ d.op = "removeProduct" /\ d.step = "deleteFiles" /\ d.product = p
          /\ d.images = ImagesOf(p) /\ d.seen = {} /\ d.todo = ImagesOf(p)
      BY DEF FilesOf, Unused
    <3>3. call'[r] = d
      BY <1>b, <3>1
    <3> HIDE DEF d
    <3> QED
      BY <2>1, <3>1, <3>2, <3>3 DEF RemoveProduct, BeginsRemoval
  <2>2. ASSUME NEW i \in Image, RemoveImage(r, i)
        PROVE  BeginsRemoval(r)
    <3> DEFINE d == [Unused EXCEPT !.op = "removeImage", !.step = "deleteFiles",
                       !.product = row[i], !.images = {i}, !.todo = FilesOf({i})]
    <3>1. /\ call[r] = Unused /\ UNCHANGED <<imageVars, file>>
          /\ call' = [call EXCEPT ![r] = d]
      BY <2>2 DEF Begin, RemoveImage, BeginRemoval
    <3>2. /\ d.op = "removeImage" /\ d.step = "deleteFiles" /\ d.product = row[i]
          /\ d.images = {i} /\ d.seen = {} /\ d.todo = {i}
      BY DEF FilesOf, Unused
    <3>3. call'[r] = d
      BY <1>b, <3>1
    <3> HIDE DEF d
    <3> QED
      BY <2>2, <3>1, <3>2, <3>3 DEF RemoveImage, BeginsRemoval
  <2> QED
    BY <1>8, <1>o, <2>1, <2>2 DEF ImageStep
<1>9. CASE FilesDeleted(r)
  BY <1>o, <1>9 DEF ImageStep, FilesDeleted, CallsFit, Fits, TypeOK, GoesOn
<1>10. CASE Stop(r)
  BY <1>o, <1>10 DEF ImageStep, Stop, CallsFit, Fits, TypeOK, Step, Aside, GoesOn, Pending, Uploaded
<1>11. CASE (\E i \in Image : DeleteFile(r, i)) \/ DeleteRow(r)
  <2>1. ASSUME NEW i \in Image, DeleteFile(r, i)
        PROVE  DeletesFile(r)
    <3>1. /\ Keeps(r) /\ call'[r].seen = call[r].seen /\ call'[r].step = call[r].step
          /\ call'[r].todo = call[r].todo \ {i}
      BY <2>1 DEF DeleteFile, TypeOK, Keeps
    <3>2. Removal(r) /\ At(r, "deleteFiles") /\ i \in call[r].todo
      BY <2>1 DEF DeleteFile, CallsFit, Fits
    <3> QED
      BY <2>1, <3>1, <3>2 DEF DeleteFile, DeletesFile
  <2>2. CASE DeleteRow(r)
    BY <2>2, <1>o DEF ImageStep, DeleteRow, CallsFit, Fits, TypeOK, DeletesRows, Keeps, ImageStep
  <2> QED
    BY <1>11, <1>o, <2>1, <2>2 DEF ImageStep
<1>12. (0 .. MaxFiles) \cup (1 .. MaxFiles) \subseteq Nat
  BY NumImagesAssumption
<1> QED
  BY <1>o, <1>1, <1>2, <1>3, <1>4, <1>5, <1>6, <1>7, <1>8, <1>9, <1>10, <1>11, <1>12
     DEF ProductRequest, ImageStep

-----------------------------------------------------------------------------
(* What every step leaves alone.                                           *)

\* Uploads and removals stay what they are; only the request that steps
\* becomes one, ends, or looks.
LEMMA RequestsStay ==
  ASSUME CallsFit, CallsFit', NEW r \in Request, ImageStep(r), NEW s \in Request
  PROVE  /\ Upload(s) => Upload(s)' /\ call'[s].images = call[s].images
         /\ Removal(s) => /\ Removal(s)' /\ call'[s].op = call[s].op
                          /\ call'[s].images = call[s].images
                          /\ call'[s].product = call[s].product
         /\ Uploaded(s) => /\ Uploaded(s)' /\ call'[s].product = call[s].product
                           /\ call'[s].seen = call[s].seen
         /\ Upload(s)' => Upload(s) \/ (s = r /\ BeginsUpload(r))
         /\ Removal(s)' => Removal(s) \/ (s = r /\ BeginsRemoval(r))
         /\ Pending(s)' => Pending(s) \/ (s = r /\ BeginsUpload(r))
         /\ Uploaded(s)' => \/ Uploaded(s) \/ call'[s].images = {}
                            \/ s = r /\ Inserts(r) /\ call'[s].product = call[s].product
         /\ call'[s].seen # {} /\ ~(s = r /\ Looks(r)) =>
              call'[s].seen = call[s].seen /\ call'[s].product = call[s].product
         /\ call'[s].images # {} /\ ~Upload(s) /\ ~Removal(s) =>
              s = r /\ (BeginsUpload(r) \/ BeginsRemoval(r))
<1> USE DEF Upload, Removal, Pending, Uploaded, UploadOp, RemovalOp, At
<1>1. CASE s # r
  BY <1>1 DEF ImageStep, CallsFit, Fits
<1>2. CASE s = r /\ Aside(r)
  BY <1>2 DEF Aside, CallsFit, Fits
<1>3. CASE s = r /\ GoesOn(r)
  BY <1>3 DEF GoesOn, CallsFit, Fits
<1>4. CASE s = r /\ BeginsUpload(r)
  BY <1>4 DEF BeginsUpload, Unused
<1>5. CASE s = r /\ Looks(r)
  BY <1>5 DEF Looks, Keeps
<1>6. CASE s = r /\ Inserts(r)
  BY <1>6 DEF Inserts, Keeps
<1>7. CASE s = r /\ BeginsRemoval(r)
  BY <1>7 DEF BeginsRemoval, Unused
<1>8. CASE s = r /\ (DeletesFile(r) \/ DeletesRows(r))
  BY <1>8 DEF DeletesFile, DeletesRows, Keeps
<1> QED
  BY <1>1, <1>2, <1>3, <1>4, <1>5, <1>6, <1>7, <1>8 DEF ImageStep

\* A row appears with its upload and disappears with a removal; a file is
\* stored by an upload and deleted by a removal.
LEMMA ImagesStay ==
  ASSUME TypeOK, NEW r \in Request, ImageStep(r), NEW i \in Image
  PROVE  /\ \/ row'[i] = row[i]
            \/ Inserts(r) /\ i \in call[r].images /\ row'[i] = call[r].product
            \/ DeletesRows(r) /\ i \in Gone(r) /\ row'[i] = NoProduct
         /\ \/ file'[i] = file[i]
            \/ BeginsUpload(r) /\ i \in call'[r].images /\ file'[i] = "stored"
            \/ DeletesFile(r) /\ i \in call[r].todo /\ i \notin call'[r].todo
                 /\ file'[i] = "deleted"
         /\ ~Inserts(r) => primary'[i] = primary[i] /\ position'[i] = position[i]
<1>1. CASE Aside(r) \/ GoesOn(r) \/ Looks(r) \/ BeginsRemoval(r)
  BY <1>1 DEF Aside, GoesOn, Looks, BeginsRemoval, imageVars
<1>2. CASE BeginsUpload(r)
  BY <1>2 DEF BeginsUpload, Store, imageVars
<1>3. CASE Inserts(r)
  BY <1>3 DEF Inserts
<1>4. CASE DeletesFile(r)
  BY <1>4 DEF DeletesFile, TypeOK, imageVars
<1>5. CASE DeletesRows(r)
  BY <1>5 DEF DeletesRows
<1> QED
  BY <1>1, <1>2, <1>3, <1>4, <1>5 DEF ImageStep

-----------------------------------------------------------------------------
(* The files.  Each lemma: a step keeps one part of the invariant.         *)

\* The files of a new upload are numbered after all others: no other request
\* names them.
LEMMA FilesStep ==
  ASSUME IInv, TypeOK', CallsFit', NEW r \in Request, ImageStep(r)
  PROVE  FilesInOrder' /\ UploadsInARow' /\ UploadsApart' /\ FilesKnown'
<1>i. TypeOK /\ CallsFit /\ FilesInOrder /\ UploadsInARow /\ UploadsApart /\ FilesKnown
  BY DEF IInv
<1>r. \A s \in Request :
        /\ Upload(s)' => Upload(s) \/ (s = r /\ BeginsUpload(r))
        /\ Upload(s) => call'[s].images = call[s].images
        /\ call'[s].images # {} /\ ~(s = r /\ (BeginsUpload(r) \/ BeginsRemoval(r))) =>
             call'[s].images = call[s].images
        /\ call'[s].seen # {} /\ ~(s = r /\ Looks(r)) => call'[s].seen = call[s].seen
  BY <1>i, RequestsStay
<1>n. \A i \in Image : (file'[i] = "none") = (file[i] = "none") \/ BeginsUpload(r)
  <2>1. ASSUME DeletesFile(r), NEW i \in call[r].todo, i \in Image
        PROVE  file[i] # "none"
    BY <2>1, <1>i DEF IInv, FilesBeforeRows, FilesKnown, DeletesFile
  <2> QED
    BY <1>i, <2>1, ImagesStay
<1>1. CASE BeginsUpload(r)
  <2>1. PICK n \in Nat : HasRoom(n) /\ Store(Fresh(n)) /\ call'[r].images = Fresh(n)
    BY <1>1 DEF BeginsUpload
  <2>2. PICK k \in 0 .. NumImages :
          (\A i \in Image : file[i] # "none" <=> i <= k) /\ Fresh(n) = k + 1 .. k + n
    BY <1>i, FreshFiles
  <2>3. k + n <= NumImages
    <3>1. n > 0 => k + n \in Fresh(n)
      BY <2>2
    <3> QED
      BY <2>1, <2>2, <3>1, NumImagesAssumption DEF HasRoom, Image
  <2>4. \A i \in Image : file'[i] # "none" <=> i <= k + n
    BY <2>1, <2>2 DEF Store, Image
  <2>5. FilesInOrder'
    <3>1. k + n \in 0 .. NumImages
      BY <2>2, <2>3, NumImagesAssumption
    <3> QED
      BY <2>4, <3>1 DEF FilesInOrder
  <2>6. UploadsInARow'
    <3>1. \E a, m \in Nat : call'[r].images = a + 1 .. a + m
      BY <2>1, <2>2, NumImagesAssumption
    <3>2. ASSUME NEW s \in Request, Upload(s)', s # r
          PROVE  \E a, m \in Nat : call'[s].images = a + 1 .. a + m
      BY <1>i, <1>r, <3>2 DEF UploadsInARow
    <3> QED
      BY <3>1, <3>2 DEF UploadsInARow
  <2>7. \A i \in call'[r].images : i \in Image /\ file[i] = "none"
    BY <2>1, <2>2 DEF HasRoom
  <2>8. UploadsApart'
    BY <1>i, <1>r, <2>7 DEF UploadsApart, FilesKnown
  <2>9. FilesKnown'
    <3>1. \A i \in Image : file'[i] = "none" => file[i] = "none" /\ i \notin call'[r].images
      BY <2>1 DEF Store
    <3>2. row' = row /\ call'[r].seen = {} /\ \A s \in Request : s # r => call'[s] = call[s]
      BY <1>1 DEF BeginsUpload, ImageStep, imageVars
    <3> QED
      BY <1>i, <3>1, <3>2 DEF FilesKnown
  <2> QED
    BY <2>5, <2>6, <2>8, <2>9
<1>2. CASE ~BeginsUpload(r)
  <2>1. FilesInOrder'
    BY <1>i, <1>n, <1>2 DEF FilesInOrder
  <2>2. UploadsInARow' /\ UploadsApart'
    BY <1>i, <1>r, <1>2 DEF UploadsInARow, UploadsApart
  <2>3. \A i \in Image : row'[i] # NoProduct => file[i] # "none"
    BY <1>i, ImagesStay DEF FilesKnown, Inserts, IInv, PendingUnseen
  <2>4. \A i \in Image : BeginsRemoval(r) /\ i \in call'[r].images => file[i] # "none"
    BY <1>i, NoRowAssumption DEF BeginsRemoval, ImagesOf, FilesKnown, CallsFit, Fits, Removal
  <2>5. \A i \in Image : Looks(r) /\ i \in call'[r].seen => file[i] # "none"
    BY <1>i, NoRowAssumption DEF Looks, ImagesOf, FilesKnown
  <2> QED
    BY <1>i, <1>r, <1>n, <1>2, <2>1, <2>2, <2>3, <2>4, <2>5 DEF FilesKnown
<1> QED
  BY <1>1, <1>2

\* A removal names images that have rows, so none of a pending upload.
LEMMA PendingStep ==
  ASSUME IInv, TypeOK', CallsFit', NEW r \in Request, ImageStep(r)
  PROVE  PendingUnseen'
<1>i. TypeOK /\ CallsFit /\ UploadsApart /\ FilesKnown /\ PendingUnseen /\ FilesBeforeRows
  BY DEF IInv
<1>r. \A s \in Request :
        /\ Pending(s)' => Pending(s) \/ (s = r /\ BeginsUpload(r))
        /\ Upload(s) => call'[s].images = call[s].images
        /\ Removal(s) => call'[s].images = call[s].images
        /\ Removal(s)' => Removal(s) \/ (s = r /\ BeginsRemoval(r))
        /\ call'[s].seen # {} /\ ~(s = r /\ Looks(r)) => call'[s].seen = call[s].seen
  BY <1>i, RequestsStay
<1>1. ASSUME NEW u \in Request, NEW i \in Image, Pending(u)', i \in call'[u].images,
             u = r, BeginsUpload(r)
      PROVE  /\ file'[i] = "stored" /\ row'[i] = NoProduct
             /\ \A s \in Request :
                  i \notin call'[s].seen /\ (Removal(s)' => i \notin call'[s].images)
  <2>1. PICK n \in Nat : Store(Fresh(n)) /\ call'[r].images = Fresh(n)
    BY <1>1 DEF BeginsUpload
  <2>2. file[i] = "none"
    <3>1. FilesInOrder
      BY DEF IInv
    <3>2. PICK k \in 0 .. NumImages :
            (\A j \in Image : file[j] # "none" <=> j <= k) /\ Fresh(n) = k + 1 .. k + n
      BY <3>1, FreshFiles
    <3>3. i > k
      BY <1>1, <2>1, <3>2
    <3> QED
      BY <3>2, <3>3, NumImagesAssumption DEF Image
  <2>3. row' = row /\ call'[r].seen = {} /\ ~Removal(r)'
    BY <1>1 DEF BeginsUpload, imageVars, Pending, Upload, Removal, UploadOp, RemovalOp
  <2>4. \A s \in Request : s # r => call'[s] = call[s]
    BY DEF ImageStep
  <2> QED
    BY <1>i, <1>1, <2>1, <2>2, <2>3, <2>4 DEF FilesKnown, Store
<1>2. ASSUME NEW u \in Request, NEW i \in Image, Pending(u)', i \in call'[u].images,
             ~(u = r /\ BeginsUpload(r))
      PROVE  /\ file'[i] = "stored" /\ row'[i] = NoProduct
             /\ \A s \in Request :
                  i \notin call'[s].seen /\ (Removal(s)' => i \notin call'[s].images)
  <2>1. Pending(u) /\ Upload(u) /\ i \in call[u].images
    BY <1>r, <1>2 DEF Pending
  <2>2. /\ file[i] = "stored" /\ row[i] = NoProduct
        /\ \A s \in Request : i \notin call[s].seen /\ (Removal(s) => i \notin call[s].images)
    BY <1>i, <2>1 DEF PendingUnseen
  <2>3. row'[i] = NoProduct
    <3>1. ASSUME Inserts(r), i \in call[r].images
          PROVE  FALSE
      <4>1. u = r
        BY <1>i, <2>1, <3>1 DEF UploadsApart, Inserts, Pending
      <4> QED
        BY <1>2, <3>1, <4>1 DEF Inserts, Pending, At
    <3> QED
      BY <1>i, <2>2, <3>1, ImagesStay
  <2>4. file'[i] = "stored"
    <3>1. DeletesFile(r) => i \notin call[r].todo
      BY <1>i, <2>2 DEF FilesBeforeRows, DeletesFile
    <3> QED
      BY <1>i, <2>2, <3>1, ImagesStay
  <2>5. Looks(r) => i \notin call'[r].seen
    BY <2>2, NoRowAssumption DEF Looks, ImagesOf
  <2>6. BeginsRemoval(r) => i \notin call'[r].images
    BY <2>2, NoRowAssumption DEF BeginsRemoval, ImagesOf, CallsFit, Fits, Removal
  <2> QED
    BY <1>r, <2>2, <2>3, <2>4, <2>5, <2>6
<1> QED
  BY <1>1, <1>2 DEF PendingUnseen

\* Images get their rows when their upload ends, under the product it names.
LEMMA RowsStep ==
  ASSUME IInv, TypeOK', CallsFit', NEW r \in Request, ImageStep(r)
  PROVE  RowsUploaded' /\ SeenUploaded' /\ RowsOfProduct'
<1>i. TypeOK /\ CallsFit /\ UploadsApart /\ PendingUnseen /\ RowsUploaded /\ SeenUploaded
        /\ RowsOfProduct
  BY DEF IInv
<1>r. \A s \in Request :
        /\ Uploaded(s) => /\ Uploaded(s)' /\ call'[s].product = call[s].product
                          /\ call'[s].images = call[s].images
        /\ Removal(s) => /\ call'[s].op = call[s].op /\ call'[s].images = call[s].images
                         /\ call'[s].product = call[s].product
        /\ Uploaded(s)' => \/ Uploaded(s) \/ call'[s].images = {}
                           \/ s = r /\ Inserts(r) /\ call'[s].product = call[s].product
        /\ Removal(s)' => Removal(s) \/ (s = r /\ BeginsRemoval(r))
        /\ call'[s].seen # {} /\ ~(s = r /\ Looks(r)) =>
             call'[s].seen = call[s].seen /\ call'[s].product = call[s].product
  BY <1>i, RequestsStay DEF Uploaded
<1>u. \A i \in Image, p \in Product :
        (\E u \in Request : Uploaded(u) /\ call[u].product = p /\ i \in call[u].images)
          => (\E u \in Request : Uploaded(u)' /\ call'[u].product = p /\ i \in call'[u].images)
  BY <1>r
<1>k. \A i \in Image :
        \/ row'[i] = row[i]
        \/ Inserts(r) /\ i \in call[r].images /\ row'[i] = call[r].product
        \/ row'[i] = NoProduct
  BY <1>i, ImagesStay
<1>n. Inserts(r) => /\ Uploaded(r)' /\ call'[r].images = call[r].images
                    /\ call'[r].product = call[r].product /\ call[r].product \in Product
  BY <1>i DEF Inserts, Keeps, Uploaded, Pending, Upload, CallsFit, Fits, At
<1>1. RowsUploaded'
  <2> SUFFICES ASSUME NEW i \in Image, row'[i] # NoProduct
               PROVE  \E u \in Request :
                        Uploaded(u)' /\ call'[u].product = row'[i] /\ i \in call'[u].images
    BY DEF RowsUploaded
  <2>1. CASE row'[i] = row[i]
    <3>1. row[i] \in Product
      BY <1>i, <2>1 DEF TypeOK
    <3> QED
      BY <1>i, <1>u, <2>1, <3>1 DEF RowsUploaded
  <2>2. CASE Inserts(r) /\ i \in call[r].images /\ row'[i] = call[r].product
    BY <1>n, <2>2
  <2> QED
    BY <1>k, <2>1, <2>2
<1>2. SeenUploaded'
  <2> SUFFICES ASSUME NEW s \in Request, NEW i \in call'[s].seen
               PROVE  \E u \in Request : /\ Uploaded(u)' /\ call'[u].product = call'[s].product
                                         /\ i \in call'[u].images
    BY DEF SeenUploaded
  <2>1. CASE s = r /\ Looks(r)
    <3>1. i \in Image /\ row[i] = call'[s].product /\ row[i] \in Product
      BY <2>1 DEF Looks, Keeps, ImagesOf
    <3> QED
      BY <1>i, <1>u, <3>1, NoRowAssumption DEF RowsUploaded
  <2>2. CASE ~(s = r /\ Looks(r))
    <3>1. i \in call[s].seen /\ call'[s].product = call[s].product
      BY <1>r, <2>2
    <3> QED
      BY <1>i, <1>r, <3>1 DEF SeenUploaded
  <2> QED
    BY <2>1, <2>2
<1>3. RowsOfProduct'
  <2> SUFFICES ASSUME NEW s \in Request, Uploaded(s)' \/ call'[s].op = "removeProduct",
                      NEW i \in call'[s].images
               PROVE  row'[i] \in {call'[s].product, NoProduct}
    BY DEF RowsOfProduct
  <2>t. i \in Image
    BY DEF TypeOK
  <2>1. CASE s = r /\ Inserts(r)
    BY <1>i, <1>k, <1>n, <2>1, <2>t DEF Inserts, PendingUnseen
  <2>2. CASE s = r /\ BeginsRemoval(r)
    <3>1. ~Uploaded(s)' /\ row' = row
      BY <2>2 DEF BeginsRemoval, Uploaded, Upload, Removal, UploadOp, RemovalOp, imageVars
    <3>2. call'[s].images = ImagesOf(call'[s].product)
      BY <2>2, <3>1 DEF BeginsRemoval
    <3> QED
      BY <3>1, <3>2 DEF ImagesOf
  <2>3. CASE (Uploaded(s) \/ call[s].op = "removeProduct") /\ i \in call[s].images
               /\ call'[s].product = call[s].product
    <3>1. ~(Inserts(r) /\ i \in call[r].images)
      BY <1>i, <2>3, <2>t DEF Inserts, PendingUnseen, UploadsApart, Uploaded, Pending, At, Removal,
         RemovalOp
    <3> QED
      BY <1>i, <1>k, <2>3, <2>t, <3>1 DEF RowsOfProduct
  <2> QED
    BY <1>r, <2>1, <2>2, <2>3 DEF Removal, RemovalOp
<1> QED
  BY <1>1, <1>2, <1>3

\* A removal is done with its files before it comes to the rows.
LEMMA RemovalStep ==
  ASSUME IInv, TypeOK', CallsFit', NEW r \in Request, ImageStep(r)
  PROVE  FilesBeforeRows'
<1>i. TypeOK /\ CallsFit /\ FilesKnown /\ FilesBeforeRows
  BY DEF IInv
<1> SUFFICES ASSUME NEW s \in Request, Removal(s)'
             PROVE  /\ call'[s].todo \subseteq call'[s].images
                    /\ \A i \in call'[s].images \ call'[s].todo : file'[i] = "deleted"
                    /\ call'[s].step \in {"deleteRow", "ok"} => call'[s].todo = {}
  BY DEF FilesBeforeRows
<1>t. call'[s].images \subseteq Image
  BY DEF TypeOK
<1>f. \A i \in Image : file[i] = "deleted" => file'[i] = "deleted"
  <2>1. ASSUME BeginsUpload(r), NEW i \in Image, i \in call'[r].images
        PROVE  file[i] = "none"
    <3>1. PICK n \in Nat : call'[r].images = Fresh(n)
      BY <2>1 DEF BeginsUpload
    <3>2. PICK k \in 0 .. NumImages :
            (\A j \in Image : file[j] # "none" <=> j <= k) /\ Fresh(n) = k + 1 .. k + n
      BY FreshFiles DEF IInv
    <3>3. i > k
      BY <2>1, <3>1, <3>2
    <3> QED
      BY <3>2, <3>3, NumImagesAssumption DEF Image
  <2> QED
    BY <1>i, <2>1, ImagesStay
<1>1. CASE s # r
  BY <1>1, <1>i, <1>t, <1>f DEF ImageStep, FilesBeforeRows, Removal
<1>2. CASE s = r /\ BeginsRemoval(r)
  BY <1>2 DEF BeginsRemoval, At
<1>3. CASE s = r /\ DeletesFile(r)
  <2>1. PICK i \in call[r].todo :
          call'[r].todo = call[r].todo \ {i} /\ file' = [file EXCEPT ![i] = "deleted"]
    BY <1>3 DEF DeletesFile
  <2>2. call'[r].images = call[r].images /\ call'[r].step = "deleteFiles"
    BY <1>3 DEF DeletesFile, Keeps, At
  <2>3. Removal(r)
    BY <1>3 DEF DeletesFile
  <2> QED
    BY <1>3, <1>i, <1>t, <1>f, <2>1, <2>2, <2>3 DEF FilesBeforeRows, TypeOK
<1>4. CASE s = r /\ (GoesOn(r) \/ DeletesRows(r))
  BY <1>4, <1>i, <1>t, <1>f
     DEF GoesOn, DeletesRows, Keeps, At, FilesBeforeRows, Removal, Upload, UploadOp, RemovalOp
<1>5. CASE s = r /\ (Aside(r) \/ BeginsUpload(r) \/ Looks(r) \/ Inserts(r))
  BY <1>5 DEF Aside, BeginsUpload, Looks, Inserts, Keeps, Pending, Removal, Upload, UploadOp,
     RemovalOp
<1> QED
  BY <1>1, <1>2, <1>3, <1>4, <1>5 DEF ImageStep

\* An image loses its file only to a removal, which takes the row as well or
\* does not come to its end.
LEMMA BrokenStep ==
  ASSUME IInv, TypeOK', CallsFit', NEW r \in Request, ImageStep(r)
  PROVE  BrokenImagesAreBeingRemoved'
<1>i. TypeOK /\ CallsFit /\ PendingUnseen /\ RowsOfProduct /\ FilesBeforeRows
        /\ BrokenImagesAreBeingRemoved
  BY DEF IInv
<1>a. RemovalOp = {"removeProduct", "removeImage"}
  BY DEF RemovalOp
<1> SUFFICES ASSUME NEW i \in Image, row'[i] # NoProduct, file'[i] # "stored"
             PROVE  \E s \in Request :
                      /\ call'[s].op \in {"removeProduct", "removeImage"}
                      /\ i \in call'[s].images
                      /\ call'[s].step \in {"deleteFiles", "deleteRow", "stopped"}
  BY DEF BrokenImagesAreBeingRemoved
<1>1. CASE DeletesFile(r) /\ i \in call[r].todo
  <2>1. Removal(r) /\ call'[r].op = call[r].op /\ call'[r].images = call[r].images
        /\ call'[r].step = "deleteFiles"
    BY <1>1 DEF DeletesFile, Keeps, At
  <2> QED
    BY <1>1, <1>i, <1>a, <2>1 DEF FilesBeforeRows, Removal
<1>2. CASE Inserts(r) /\ i \in call[r].images
  BY <1>2, <1>i DEF Inserts, PendingUnseen
<1>3. CASE row[i] # NoProduct /\ file[i] # "stored"
  <2>1. PICK s \in Request :
          /\ call[s].op \in {"removeProduct", "removeImage"}
          /\ i \in call[s].images
          /\ call[s].step \in {"deleteFiles", "deleteRow", "stopped"}
    BY <1>3, <1>i DEF BrokenImagesAreBeingRemoved
  <2>2. Removal(s)
    BY <1>a, <2>1 DEF Removal
  <2>3. call'[s].op = call[s].op /\ call'[s].images = call[s].images
    BY <1>i, <2>2, RequestsStay
  <2>4. CASE s # r
    BY <2>1, <2>4 DEF ImageStep
  <2>5. CASE s = r /\ DeletesRows(r)
    <3>1. call[r].op = "removeImage" => row'[i] = NoProduct
      BY <2>1, <2>5 DEF DeletesRows, Gone
    <3>2. call[r].op = "removeProduct" => row[i] = call[r].product
      BY <1>3, <1>i, <2>1, <2>5 DEF RowsOfProduct
    <3>3. call[r].op = "removeProduct" => row'[i] = NoProduct
      BY <2>5, <3>2 DEF DeletesRows, Gone, ImagesOf
    <3> QED
      BY <2>1, <2>5, <3>1, <3>3
  <2>6. CASE s = r /\ ~DeletesRows(r)
    <3>1. call'[r].step \in {"deleteFiles", "deleteRow", "stopped"}
      BY <1>i, <2>1, <2>2, <2>6 DEF ImageStep, Aside, GoesOn, BeginsUpload, Looks, Inserts,
         BeginsRemoval, DeletesFile, Unused, Pending, At, Removal, Upload, UploadOp, RemovalOp
    <3> QED
      BY <2>1, <2>3, <2>6, <3>1
  <2> QED
    BY <2>4, <2>5, <2>6
<1>4. \/ row'[i] = row[i]
      \/ Inserts(r) /\ i \in call[r].images
      \/ row'[i] = NoProduct
  BY <1>i, ImagesStay
<1>5. \/ file'[i] = file[i] \/ file'[i] = "stored"
      \/ DeletesFile(r) /\ i \in call[r].todo
  BY <1>i, ImagesStay
<1> QED
  BY <1>1, <1>2, <1>3, <1>4, <1>5

\* A stored file loses its row only when a product is removed by a request
\* that found the product without this image.
LEMMA ForgottenStep ==
  ASSUME IInv, TypeOK', CallsFit', NEW r \in Request, ImageStep(r)
  PROVE  NoFileForgotten'
<1>i. TypeOK /\ CallsFit /\ FilesInOrder /\ FilesKnown /\ RowsOfProduct /\ FilesBeforeRows
        /\ NoFileForgotten
  BY DEF IInv
<1> SUFFICES ASSUME NEW u \in Request, Upload(u)', At(u, "ok")', NEW i \in call'[u].images,
                    file'[i] = "stored", row'[i] = NoProduct
             PROVE  \E s \in Request :
                      /\ call'[s].op = "removeProduct"
                      /\ call'[s].product = call'[u].product
                      /\ i \notin call'[s].images
  BY DEF NoFileForgotten, Upload, UploadOp
<1>t. i \in Image
  BY DEF TypeOK
<1>1. CASE ~Uploaded(u)
  <2>1. Inserts(r) /\ u = r
    BY <1>1, <1>i, RequestsStay DEF Uploaded
  <2>2. row'[i] = call[r].product /\ call[r].product \in Product
    BY <2>1, <1>i, <1>t DEF Inserts, Keeps, CallsFit, Fits, At
  <2> QED
    BY <2>2, NoRowAssumption
<1>2. CASE Uploaded(u)
  <2>1. i \in call[u].images /\ call'[u].product = call[u].product
    BY <1>2, <1>i, RequestsStay DEF Uploaded
  <2>2. file[i] = "stored"
    <3>1. ~(BeginsUpload(r) /\ i \in call'[r].images)
      <4>1. ASSUME BeginsUpload(r), i \in call'[r].images
            PROVE  u = r
        BY <1>i, <1>t, <4>1, <2>1, FilesStep DEF UploadsApart, BeginsUpload, Pending
      <4> QED
        BY <1>2, <4>1 DEF BeginsUpload, Uploaded, At, Unused
    <3> QED
      BY <1>i, <1>t, <3>1, ImagesStay
  <2>3. CASE row[i] = NoProduct
    <3>1. PICK s \in Request :
            /\ call[s].op = "removeProduct"
            /\ call[s].product = call[u].product
            /\ i \notin call[s].images
      BY <1>2, <1>i, <2>1, <2>2, <2>3 DEF NoFileForgotten, Uploaded, Upload, UploadOp
    <3>2. Removal(s)
      BY <3>1 DEF Removal, RemovalOp
    <3> QED
      BY <1>i, <2>1, <3>1, <3>2, RequestsStay
  <2>4. CASE row[i] # NoProduct
    <3>1. DeletesRows(r) /\ i \in Gone(r)
      BY <1>i, <1>t, <2>4, ImagesStay, NoRowAssumption
         DEF Inserts, CallsFit, Fits, At
    <3>2. Removal(r) /\ call[r].todo = {}
      BY <1>i, <3>1 DEF DeletesRows, FilesBeforeRows, At
    <3>3. i \notin call[r].images
      BY <1>i, <2>2, <3>2 DEF FilesBeforeRows
    <3>4. call[r].op = "removeProduct" /\ row[i] = call[r].product
      BY <3>1, <3>3 DEF Gone, ImagesOf
    <3>5. row[i] = call[u].product
      BY <1>2, <1>i, <2>1, <2>4 DEF RowsOfProduct
    <3> QED
      BY <2>1, <3>1, <3>3, <3>4, <3>5 DEF DeletesRows, Keeps
  <2> QED
    BY <2>3, <2>4
<1> QED
  BY <1>1, <1>2

-----------------------------------------------------------------------------
(* The gallery.                                                            *)

\* Only the first image of an upload that saw none is primary.
LEMMA PrimaryStep ==
  ASSUME IInv, NEW r \in Request, ImageStep(r)
  PROVE  PrimaryAtFront'
<1> SUFFICES ASSUME NEW i \in Image, primary'[i]
             PROVE  position'[i] = 0
  BY DEF PrimaryAtFront
<1>1. CASE Inserts(r) /\ i \in call[r].images
  <2>1. IsPrimary(r, i) /\ position'[i] = Position(r, i)
    BY <1>1 DEF Inserts
  <2>2. call[r].seen = {} /\ IndexIn(r, i) = 0 /\ Cardinality(call[r].seen) = 0
    BY <2>1, FS_EmptySet DEF IsPrimary
  <2> QED
    BY <2>1, <2>2 DEF Position
<1>2. CASE ~(Inserts(r) /\ i \in call[r].images)
  <2>1. primary'[i] = primary[i] /\ position'[i] = position[i]
    <3>1. CASE Inserts(r)
      BY <1>2, <3>1 DEF Inserts
    <3>2. CASE ~Inserts(r)
      BY <3>2, ImagesStay DEF IInv
    <3> QED
      BY <3>1, <3>2
  <2> QED
    BY <2>1 DEF IInv, PrimaryAtFront
<1> QED
  BY <1>1, <1>2

\* The uploads to a product that succeeded stay as they are.
LEMMA UploadsStay ==
  ASSUME CallsFit, CallsFit', NEW r \in Request, ImageStep(r), NEW p \in Product,
         InTurn(p)', AllKept(p)'
  PROVE  /\ InTurn(p)
         /\ \A u \in UploadsTo(p) :
              u \in UploadsTo(p)' /\ call[u].images \subseteq ImagesOf(p)'
<1>1. \A u \in UploadsTo(p) :
        /\ u \in UploadsTo(p)'
        /\ call'[u].images = call[u].images /\ call'[u].seen = call[u].seen
  BY RequestsStay DEF UploadsTo, Uploaded, Upload, UploadOp
<1> QED
  BY <1>1 DEF InTurn, AllKept

\* A product whose images stay the same stays in order.
LEMMA OrderKept ==
  ASSUME GalleryInOrder, NEW p \in Product, InTurn(p), AllKept(p), ImagesOf(p) # {},
         ImagesOf(p)' = ImagesOf(p),
         \A i \in ImagesOf(p) : primary'[i] = primary[i] /\ position'[i] = position[i]
  PROVE  /\ Cardinality({i \in ImagesOf(p)' : primary'[i]}) = 1
         /\ {position'[i] : i \in ImagesOf(p)'} = 0 .. Cardinality(ImagesOf(p)') - 1
<1>1. {i \in ImagesOf(p)' : primary'[i]} = {i \in ImagesOf(p) : primary[i]}
  OBVIOUS
<1>2. {position'[i] : i \in ImagesOf(p)'} = {position[i] : i \in ImagesOf(p)}
  OBVIOUS
<1> QED
  BY <1>1, <1>2 DEF GalleryInOrder

\* An upload that saw all images of its product appends to them.
LEMMA OrderAppended ==
  ASSUME TypeOK, UploadsInARow, NEW r \in Request, NEW p \in Product, Inserts(r), Upload(r),
         call[r].images # {}, call[r].images \cap ImagesOf(p) = {},
         call[r].seen = ImagesOf(p), ImagesOf(p)' = ImagesOf(p) \cup call[r].images,
         ImagesOf(p) # {} =>
           /\ Cardinality({i \in ImagesOf(p) : primary[i]}) = 1
           /\ {position[i] : i \in ImagesOf(p)} = 0 .. Cardinality(ImagesOf(p)) - 1
  PROVE  /\ Cardinality({i \in ImagesOf(p)' : primary'[i]}) = 1
         /\ {position'[i] : i \in ImagesOf(p)'} = 0 .. Cardinality(ImagesOf(p)') - 1
<1> DEFINE S == ImagesOf(p)
           I == call[r].images
<1>1. S \in SUBSET Image /\ I \in SUBSET Image
  BY DEF TypeOK, ImagesOf
<1>2. PICK a \in Nat, n \in Nat : I = a + 1 .. a + n
  BY DEF UploadsInARow
<1>3. n > 0 /\ Cardinality(I) = n
  BY <1>2, FS_Interval
<1>4. Cardinality(S) \in Nat /\ Cardinality(S \cup I) = Cardinality(S) + n
  <2>1. Cardinality(S \cap I) = 0
    <3>1. S \cap I = {}
      OBVIOUS
    <3> QED
      BY <3>1, FS_EmptySet
  <2>2. IsFiniteSet(S) /\ IsFiniteSet(I) /\ Cardinality(S) \in Nat
    BY <1>1, ImagesFinite
  <2>3. Cardinality(S \cup I) = Cardinality(S) + Cardinality(I) - Cardinality(S \cap I)
    BY <2>2, FS_Union
  <2> QED
    BY <1>3, <2>1, <2>2, <2>3
<1>5. \A i \in I : IndexIn(r, i) = i - a - 1
  BY <1>2, IndexesInARow
<1>6. \A i \in I : /\ position'[i] = Cardinality(S) + (i - a - 1)
                   /\ primary'[i] = (S = {} /\ i = a + 1)
  <2> SUFFICES ASSUME NEW i \in I
               PROVE  /\ position'[i] = Cardinality(S) + (i - a - 1)
                      /\ primary'[i] = (S = {} /\ i = a + 1)
    OBVIOUS
  <2>1. position'[i] = Position(r, i) /\ primary'[i] = IsPrimary(r, i)
    BY <1>1 DEF Inserts
  <2> QED
    BY <1>2, <1>5, <2>1 DEF Position, IsPrimary
<1>7. \A i \in S : position'[i] = position[i] /\ primary'[i] = primary[i]
  BY <1>1 DEF Inserts
<1>8. Cardinality({i \in S \cup I : primary'[i]}) = 1
  <2>1. CASE S = {}
    <3>1. a + 1 \in I /\ S \cup I = I
      BY <1>2, <1>3, <2>1
    <3>2. \A i \in I : primary'[i] = (i = a + 1)
      BY <1>6, <2>1
    <3>3. {i \in S \cup I : primary'[i]} = {a + 1}
      BY <3>1, <3>2
    <3> QED
      BY <3>3, FS_Singleton
  <2>2. CASE S # {}
    <3>1. {i \in S \cup I : primary'[i]} = {i \in S : primary[i]}
      BY <1>6, <1>7, <2>2
    <3> QED
      BY <2>2, <3>1
  <2> QED
    BY <2>1, <2>2
<1>9. {position'[i] : i \in S \cup I} = 0 .. Cardinality(S) + n - 1
  <2>1. {position'[i] : i \in S} = 0 .. Cardinality(S) - 1
    <3>1. CASE S = {}
      BY <3>1, FS_EmptySet
    <3>2. CASE S # {}
      <4>1. {position'[i] : i \in S} = {position[i] : i \in S}
        BY <1>7
      <4> QED
        BY <3>2, <4>1
    <3> QED
      BY <3>1, <3>2
  <2>2. {position'[i] : i \in I} = Cardinality(S) .. Cardinality(S) + n - 1
    <3> DEFINE c == Cardinality(S)
    <3>1. ASSUME NEW i \in I
          PROVE  position'[i] \in c .. c + n - 1
      BY <1>2, <1>4, <1>6
    <3>2. ASSUME NEW x \in c .. c + n - 1
          PROVE  \E i \in I : position'[i] = x
      <4> DEFINE i == a + 1 + (x - c)
      <4>1. c \in Nat /\ x \in Nat /\ i \in I
        BY <1>2, <1>4
      <4>2. position'[i] = c + (i - a - 1)
        BY <1>6, <4>1
      <4>3. c + (i - a - 1) = x
        BY <4>1
      <4> HIDE DEF i
      <4> QED
        BY <4>1, <4>2, <4>3
    <3> QED
      BY <3>1, <3>2
  <2>3. {position'[i] : i \in S \cup I} = {position'[i] : i \in S} \cup {position'[i] : i \in I}
    OBVIOUS
  <2> QED
    BY <1>3, <1>4, <2>1, <2>2, <2>3
<1> QED
  BY <1>4, <1>8, <1>9

\* Uploads that saw each other's images continue the gallery where it ended.
LEMMA OrderStep ==
  ASSUME IInv, TypeOK', CallsFit', NEW r \in Request, ImageStep(r)
  PROVE  GalleryInOrder'
<1>i. TypeOK /\ CallsFit /\ UploadsInARow /\ PendingUnseen /\ RowsUploaded /\ SeenUploaded
        /\ GalleryInOrder
  BY DEF IInv
<1> SUFFICES ASSUME NEW p \in Product, ImagesOf(p)' # {}, InTurn(p)', AllKept(p)'
             PROVE  /\ Cardinality({i \in ImagesOf(p)' : primary'[i]}) = 1
                    /\ {position'[i] : i \in ImagesOf(p)'} = 0 .. Cardinality(ImagesOf(p)') - 1
  BY DEF GalleryInOrder
<1>u. InTurn(p) /\ \A u \in UploadsTo(p) :
                     u \in UploadsTo(p)' /\ call[u].images \subseteq ImagesOf(p)'
  BY <1>i, UploadsStay
<1>s. \A i \in ImagesOf(p) : \E u \in UploadsTo(p) : i \in call[u].images
  BY <1>i, NoRowAssumption DEF RowsUploaded, ImagesOf, UploadsTo, Uploaded, Upload, UploadOp
<1>1. CASE Inserts(r) /\ call[r].product = p /\ call[r].images # {}
  <2> DEFINE I == call[r].images
  <2>1. \A i \in I : /\ row[i] = NoProduct /\ i \in Image
                     /\ \A s \in Request : i \notin call[s].seen
    BY <1>1, <1>i DEF Inserts, PendingUnseen, TypeOK
  <2>2. ImagesOf(p)' = ImagesOf(p) \cup I /\ I \cap ImagesOf(p) = {}
    BY <1>1, <2>1, NoRowAssumption DEF Inserts, ImagesOf
  <2>3. r \in UploadsTo(p)' /\ r \notin UploadsTo(p) /\ call'[r].images = I
          /\ call'[r].seen = call[r].seen /\ Upload(r)
    BY <1>1 DEF Inserts, Keeps, UploadsTo, Pending, Upload, UploadOp, At
  <2>4. \A v \in UploadsTo(p) : call[v].images \subseteq call[r].seen
    <3> SUFFICES ASSUME NEW v \in UploadsTo(p)
                 PROVE  call[v].images \subseteq call[r].seen
      OBVIOUS
    <3>1. v \in Request /\ v # r /\ call'[v] = call[v]
      BY <2>3 DEF UploadsTo, ImageStep
    <3>2. \/ call'[r].images \subseteq call'[v].seen
          \/ call'[v].images \subseteq call'[r].seen
      BY <1>u, <2>3, <3>1 DEF InTurn
    <3> QED
      BY <1>1, <2>1, <2>3, <3>1, <3>2
  <2>5. call[r].seen = ImagesOf(p)
    <3>1. ASSUME NEW i \in call[r].seen
          PROVE  i \in ImagesOf(p)
      <4>1. \E u \in UploadsTo(p) : i \in call[u].images
        BY <1>1, <1>i, <3>1 DEF SeenUploaded, UploadsTo, Uploaded, Upload, UploadOp
      <4> QED
        BY <1>u, <2>1, <2>2, <4>1
    <3> QED
      BY <1>s, <2>4, <3>1
  <2>6. AllKept(p)
    BY <2>4, <2>5 DEF AllKept
  <2> QED
    BY <1>1, <1>i, <1>u, <2>2, <2>3, <2>5, <2>6, OrderAppended DEF GalleryInOrder
<1>2. CASE ~(Inserts(r) /\ call[r].product = p /\ call[r].images # {})
  <2>1. ImagesOf(p)' = ImagesOf(p)
    <3>1. ImagesOf(p)' \subseteq ImagesOf(p)
      BY <1>2, <1>i, ImagesStay, NoRowAssumption DEF ImagesOf
    <3> QED
      BY <1>s, <1>u, <3>1
  <2>2. AllKept(p)
    BY <1>u, <2>1 DEF AllKept
  <2>3. \A i \in ImagesOf(p) : primary'[i] = primary[i] /\ position'[i] = position[i]
    <3>1. CASE Inserts(r)
      BY <1>i, <3>1, NoRowAssumption DEF Inserts, PendingUnseen, ImagesOf
    <3>2. CASE ~Inserts(r)
      BY <1>i, <3>2, ImagesStay DEF ImagesOf
    <3> QED
      BY <3>1, <3>2
  <2> QED
    BY <1>i, <1>u, <2>1, <2>2, <2>3, OrderKept
<1> QED
  BY <1>1, <1>2

-----------------------------------------------------------------------------
(* The theorems.                                                            *)

\* Every step keeps the invariant.
LEMMA InvStep == IInv /\ [Next]_vars => IInv'
<1> SUFFICES ASSUME IInv, [Next]_vars
             PROVE  IInv'
  OBVIOUS
<1>t. TypeOK' /\ CallsFit' /\ ProductsHaveCategories'
  BY TypeStep, CallsStep, CategoriesStep DEF IInv
<1>1. CASE Next
  <2>1. PICK r \in Request : ImageStep(r)
    BY <1>1, StepKinds DEF IInv
  <2> QED
    BY <1>t, <2>1, FilesStep, PendingStep, RowsStep, RemovalStep, BrokenStep, ForgottenStep,
       PrimaryStep, OrderStep DEF IInv
<1>2. CASE UNCHANGED vars
  <2>1. /\ UNCHANGED <<row, primary, position, file, call>>
        /\ \A p \in Product : ImagesOf(p)' = ImagesOf(p) /\ UploadsTo(p)' = UploadsTo(p)
    BY <1>2 DEF vars, imageVars, ImagesOf, UploadsTo, At
  <2>2. FilesInOrder' /\ UploadsInARow' /\ UploadsApart' /\ FilesKnown' /\ PendingUnseen'
    BY <2>1 DEF IInv, FilesInOrder, UploadsInARow, UploadsApart, FilesKnown, PendingUnseen,
       Upload, Removal, Pending
  <2>3. RowsUploaded' /\ SeenUploaded' /\ RowsOfProduct' /\ FilesBeforeRows'
    BY <2>1 DEF IInv, RowsUploaded, SeenUploaded, RowsOfProduct, FilesBeforeRows, Upload,
       Removal, Uploaded, At
  <2>4. BrokenImagesAreBeingRemoved' /\ NoFileForgotten' /\ PrimaryAtFront'
    BY <2>1 DEF IInv, BrokenImagesAreBeingRemoved, NoFileForgotten, PrimaryAtFront, At
  <2>5. GalleryInOrder'
    BY <2>1 DEF IInv, GalleryInOrder, InTurn, AllKept
  <2> QED
    BY <1>t, <2>2, <2>3, <2>4, <2>5 DEF IInv
<1> QED
  BY <1>1, <1>2

\* Every reachable state satisfies the invariant.
THEOREM Invariance == Spec => []IInv
BY InvInit, InvStep, PTL DEF Spec

\* Every reachable state of the catalogue's administration is well typed.
THEOREM TypeCorrect == Spec => []TypeOK
<1>1. IInv => TypeOK
  BY DEF IInv
<1> QED
  BY <1>1, Invariance, PTL

\* However the counting and deleting of categories interleaves with the
\* saving of products, no product is left without its category.
THEOREM CategoriesStay == Spec => []ProductsHaveCategories
<1>1. IInv => ProductsHaveCategories
  BY DEF IInv
<1> QED
  BY <1>1, Invariance, PTL

\* A shown image without its file is always being removed, or was when the
\* request was cut off.
THEOREM NoBrokenImages == Spec => []BrokenImagesAreBeingRemoved
<1>1. IInv => BrokenImagesAreBeingRemoved
  BY DEF IInv
<1> QED
  BY <1>1, Invariance, PTL

\* The file of an upload that succeeded outlives its row only when a removal
\* of the product looked before the upload.
THEOREM FilesRemembered == Spec => []NoFileForgotten
<1>1. IInv => NoFileForgotten
  BY DEF IInv
<1> QED
  BY <1>1, Invariance, PTL

\* The primary image of a product has the first place, however uploads and
\* removals race.
THEOREM PrimaryFirst == Spec => []PrimaryIsFirst
<1>1. IInv => PrimaryIsFirst
  BY DEF IInv, TypeOK, PrimaryAtFront, PrimaryIsFirst
<1> QED
  BY <1>1, Invariance, PTL

\* While uploads take turns and nothing is removed, every gallery has one
\* primary image and its places are used once each.
THEOREM OrderedGalleries == Spec => []GalleryInOrder
<1>1. IInv => GalleryInOrder
  BY DEF IInv
<1> QED
  BY <1>1, Invariance, PTL
=============================================================================
