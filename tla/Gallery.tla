------------------------------ MODULE Gallery ------------------------------
(***************************************************************************)
(* Categories, products and their images (categories.service.ts,           *)
(* products.service.ts, storage.service.ts), seen from the administrators' *)
(* requests.  Rows live in the database, the files that images point at    *)
(* on the disk, and no request holds a transaction around its statements:  *)
(* every write, to either place, is a step, and requests interleave.       *)
(*                                                                         *)
(* Reads that follow each other with no write between them are one step,   *)
(* and so is TypeORM's save, which reads the row once more, updates it     *)
(* when it is there and inserts it when it is not.  Of a category its name *)
(* is kept (slug is treated alike), of a product its category; prices,     *)
(* stock and listing are in Catalog.  Images are numbered in the order     *)
(* their files are stored.  A request is used once, and stays.             *)
(***************************************************************************)
EXTENDS Integers, FiniteSets

CONSTANTS
  Category, Product,  \* ids: of rows that are, were or may be there
  NumImages,          \* bound on the image files ever uploaded
  MaxFiles,           \* bound on the files of one upload (10 in the code)
  Name,               \* names of categories
  Request,            \* requests of administrators: bounds how many are made
  NoCategory, NoProduct, NoName,
  Keep                \* a field the request does not name

Image == 1 .. NumImages

ASSUME NumImagesAssumption == NumImages \in Nat /\ MaxFiles \in Nat
ASSUME NoRowAssumption ==
  NoCategory \notin Category /\ NoProduct \notin Product /\ NoName \notin Name
ASSUME KeepAssumption == Keep \notin Category \cup Name

VARIABLES
  name,        \* of the category, NoName when it has no row
  categoryOf,  \* of the product, NoCategory when it has no row
  row,         \* product_id of the image, NoProduct when it has no row
  primary,     \* is_primary of the image
  position,    \* position of the image
  file,        \* the image's file: "none" yet, "stored" or "deleted"
  call         \* the requests: what each does, holds, and does next

imageVars == <<row, primary, position>>
vars == <<name, categoryOf, imageVars, file, call>>

Step == {"unused", "findCategory", "load", "saveCategory", "deleteCategory",
         "saveProduct", "saveImages", "deleteFiles", "deleteRow",
         "ok", "failed", "stopped"}
Op == {"none", "createCategory", "updateCategory", "removeCategory",
       "createProduct", "updateProduct", "addImages",
       "removeProduct", "removeImage"}

Unused == [op |-> "none", step |-> "unused", category |-> NoCategory,
           name |-> NoName, product |-> NoProduct,
           images |-> {},   \* that it uploads or removes
           seen |-> {},     \* that its product had when it looked
           todo |-> {}]     \* whose files it has still to delete

\* A store in use: some categories and, for each, some products.
Init ==
  /\ name \in [Category -> Name \cup {NoName}]
  /\ \A c, d \in Category : name[c] = name[d] /\ name[c] # NoName => c = d
  /\ categoryOf \in [Product -> {NoCategory} \cup {c \in Category : name[c] # NoName}]
  /\ row = [i \in Image |-> NoProduct]
  /\ primary = [i \in Image |-> FALSE]
  /\ position = [i \in Image |-> 0]
  /\ file = [i \in Image |-> "none"]
  /\ call = [r \in Request |-> Unused]

CategoryExists(c) == name[c] # NoName
ProductExists(p)  == categoryOf[p] # NoCategory
ProductsIn(c)     == {p \in Product : categoryOf[p] = c}
ImagesOf(p)       == {i \in Image : row[i] = p}

\* A random uuid is no id that any row or request has had.
NewCategory(c) == ~CategoryExists(c) /\ \A r \in Request : call[r].category # c
NewProduct(p)  == ~ProductExists(p) /\ \A r \in Request : call[r].product # p

Begin(r, c) == call[r] = Unused /\ call' = [call EXCEPT ![r] = c]
At(r, step) == call[r].step = step
Goto(r, step) == call' = [call EXCEPT ![r].step = step]

-----------------------------------------------------------------------------
(* categories.service.ts.                                                  *)

\* create(): no category has the name or the slug.
CreateCategory(r, n) ==
  /\ n \notin {name[d] : d \in Category}
  /\ Begin(r, [Unused EXCEPT !.op = "createCategory", !.step = "saveCategory",
                             !.name = n])
  /\ UNCHANGED <<name, categoryOf, imageVars, file>>

\* update() looks at one category with the name or the slug of the request; it
\* may be c itself, with the slug it has, while another has the name.  What the
\* request does not name is saved as it was read.
UpdateCategory(r, c, n) ==
  /\ CategoryExists(c)
  /\ Begin(r, [Unused EXCEPT !.op = "updateCategory", !.step = "saveCategory",
                             !.name = IF n = Keep THEN name[c] ELSE n,
                             !.category = c])
  /\ UNCHANGED <<name, categoryOf, imageVars, file>>

\* The unique indexes of the table.
Indexed(c, n) == \A d \in Category \ {c} : name[d] # n

\* save: a new row, the row of c, or the row of c again if it was removed.
SaveCategory(r) ==
  /\ At(r, "saveCategory")
  /\ \E c \in Category :
       /\ IF call[r].op = "createCategory" THEN NewCategory(c) ELSE c = call[r].category
       /\ IF Indexed(c, call[r].name)
          THEN /\ name' = [name EXCEPT ![c] = call[r].name]
               /\ call' = [call EXCEPT ![r].step = "ok", ![r].category = c]
          ELSE Goto(r, "failed") /\ UNCHANGED name
  /\ UNCHANGED <<categoryOf, imageVars, file>>

\* remove(): a category that is found to have no products ...
RemoveCategory(r, c) ==
  /\ CategoryExists(c)
  /\ ProductsIn(c) = {}
  /\ Begin(r, [Unused EXCEPT !.op = "removeCategory", !.step = "deleteCategory",
                             !.category = c])
  /\ UNCHANGED <<name, categoryOf, imageVars, file>>

\* ... is deleted, if the foreign key of the products (unless there is none)
\* still lets it.
Unrestricted(c) == FALSE
Restricted(c)   == ProductsIn(c) # {}

DeleteCategory(r) ==
  /\ At(r, "deleteCategory")
  /\ LET c == call[r].category
     IN IF Restricted(c)
        THEN Goto(r, "failed") /\ UNCHANGED name
        ELSE Goto(r, "ok") /\ name' = [name EXCEPT ![c] = NoName]
  /\ UNCHANGED <<categoryOf, imageVars, file>>

-----------------------------------------------------------------------------
(* products.service.ts: create, update and addImages.                      *)

\* Multer stores the files of a request before its handler runs.
Store(I) == file' = [i \in Image |-> IF i \in I THEN "stored" ELSE file[i]]

\* The next n files.
Fresh(n) ==
  LET first == Cardinality({i \in Image : file[i] # "none"})
  IN first + 1 .. first + n
HasRoom(n) == Fresh(n) \subseteq Image

CreateProduct(r, c, n) ==
  /\ HasRoom(n)
  /\ Store(Fresh(n))
  /\ Begin(r, [Unused EXCEPT !.op = "createProduct", !.step = "findCategory",
                             !.category = c, !.images = Fresh(n)])
  /\ UNCHANGED <<name, categoryOf, imageVars>>

\* update() loads the product; c is the category the request names, or Keep.
UpdateProduct(r, p, c) ==
  /\ ProductExists(p)
  /\ Begin(r, [Unused EXCEPT
       !.op = "updateProduct", !.product = p,
       !.step = IF c = Keep THEN "saveProduct" ELSE "findCategory",
       !.category = IF c = Keep THEN categoryOf[p] ELSE c])
  /\ UNCHANGED <<name, categoryOf, imageVars, file>>

FindCategory(r) ==
  /\ At(r, "findCategory")
  /\ Goto(r, IF CategoryExists(call[r].category) THEN "saveProduct" ELSE "failed")
  /\ UNCHANGED <<name, categoryOf, imageVars, file>>

\* save: a new row, the row of the product, or that row again if it was
\* removed, refused by the foreign key when the category is gone.
SaveProduct(r) ==
  /\ At(r, "saveProduct")
  /\ \E p \in Product :
       /\ IF call[r].op = "createProduct" THEN NewProduct(p) ELSE p = call[r].product
       /\ IF CategoryExists(call[r].category)
          THEN /\ categoryOf' = [categoryOf EXCEPT ![p] = call[r].category]
               /\ call' = [call EXCEPT ![r].product = p,
                    ![r].step = IF call[r].images = {} THEN "ok" ELSE "saveImages"]
          ELSE Goto(r, "failed") /\ UNCHANGED categoryOf
  /\ UNCHANGED <<name, imageVars, file>>

AddImages(r, p, n) ==
  /\ HasRoom(n)
  /\ Store(Fresh(n))
  /\ Begin(r, [Unused EXCEPT !.op = "addImages", !.step = "load",
                             !.product = p, !.images = Fresh(n)])
  /\ UNCHANGED <<name, categoryOf, imageVars>>

Load(r) ==
  /\ At(r, "load")
  /\ LET p == call[r].product
     IN IF ProductExists(p)
        THEN call' = [call EXCEPT ![r].step = "saveImages", ![r].seen = ImagesOf(p)]
        ELSE Goto(r, "failed")
  /\ UNCHANGED <<name, categoryOf, imageVars, file>>

\* The files of an upload follow the images its product had, and the first
\* image of a product is its primary one.  The variants begin one too early
\* and mark the first file of every upload.
IndexIn(r, i)        == Cardinality({j \in call[r].images : j < i})
PositionBefore(r, i) == Cardinality(call[r].seen) + IndexIn(r, i) - 1
Position(r, i)       == Cardinality(call[r].seen) + IndexIn(r, i)
FirstOfUpload(r, i)  == IndexIn(r, i) = 0
IsPrimary(r, i)      == call[r].seen = {} /\ IndexIn(r, i) = 0

\* One statement inserts all rows of the upload, or none when the product is
\* gone.
SaveImages(r) ==
  /\ At(r, "saveImages")
  /\ LET p == call[r].product
         I == call[r].images
     IN IF ProductExists(p)
        THEN /\ row' = [i \in Image |-> IF i \in I THEN p ELSE row[i]]
             /\ primary' = [i \in Image |-> IF i \in I THEN IsPrimary(r, i) ELSE primary[i]]
             /\ position' = [i \in Image |-> IF i \in I THEN Position(r, i) ELSE position[i]]
             /\ Goto(r, "ok")
        ELSE Goto(r, "failed") /\ UNCHANGED imageVars
  /\ UNCHANGED <<name, categoryOf, file>>

-----------------------------------------------------------------------------
(* products.service.ts: remove and removeImage.                            *)

\* Which files go with the images: all of them (a variant: the main one).
MainFileOnly(I) == {i \in I : primary[i]}
FilesOf(I)      == I

BeginRemoval(r, o, p, I) ==
  Begin(r, [Unused EXCEPT !.op = o, !.step = "deleteFiles", !.product = p,
                          !.images = I, !.todo = FilesOf(I)])

RemoveProduct(r, p) ==
  /\ ProductExists(p)
  /\ BeginRemoval(r, "removeProduct", p, ImagesOf(p))
  /\ UNCHANGED <<name, categoryOf, imageVars, file>>

RemoveImage(r, i) ==
  /\ row[i] # NoProduct
  /\ BeginRemoval(r, "removeImage", row[i], {i})
  /\ UNCHANGED <<name, categoryOf, imageVars, file>>

\* storage.service.ts: a file that is gone already is no error.
DeleteFile(r, i) ==
  /\ At(r, "deleteFiles")
  /\ i \in call[r].todo
  /\ file' = [file EXCEPT ![i] = "deleted"]
  /\ call' = [call EXCEPT ![r].todo = @ \ {i}]
  /\ UNCHANGED <<name, categoryOf, imageVars>>

FilesDeleted(r) ==
  /\ At(r, "deleteFiles")
  /\ call[r].todo = {}
  /\ Goto(r, "deleteRow")
  /\ UNCHANGED <<name, categoryOf, imageVars, file>>

\* The images that lose their rows: all the product has by now (ON DELETE
\* CASCADE, the variant does without), or the one.
NotCascaded(r) == IF call[r].op = "removeProduct" THEN {} ELSE call[r].images
Gone(r) == IF call[r].op = "removeProduct" THEN ImagesOf(call[r].product)
                                           ELSE call[r].images

\* Deleting a row that is gone already is no error either.
DeleteRow(r) ==
  /\ At(r, "deleteRow")
  /\ row' = [i \in Image |-> IF i \in Gone(r) THEN NoProduct ELSE row[i]]
  /\ categoryOf' = IF call[r].op = "removeProduct"
                   THEN [categoryOf EXCEPT ![call[r].product] = NoCategory]
                   ELSE categoryOf
  /\ Goto(r, "ok")
  /\ UNCHANGED <<name, primary, position, file>>

\* The server stops, or a statement or the disk throws: the request ends where
\* it is.
Stop(r) ==
  /\ call[r].step \notin {"unused", "ok", "failed", "stopped"}
  /\ Goto(r, "stopped")
  /\ UNCHANGED <<name, categoryOf, imageVars, file>>

-----------------------------------------------------------------------------
CategoryRequest(r) ==
  \/ \E n \in Name : CreateCategory(r, n)
  \/ \E c \in Category :
       \/ \E n \in Name \cup {Keep} : UpdateCategory(r, c, n)
       \/ RemoveCategory(r, c)
  \/ SaveCategory(r) \/ DeleteCategory(r)

ProductRequest(r) ==
  \/ \E n \in 0 .. MaxFiles, c \in Category : CreateProduct(r, c, n)
  \/ \E p \in Product :
       \/ \E c \in Category \cup {Keep} : UpdateProduct(r, p, c)
       \/ \E n \in 1 .. MaxFiles : AddImages(r, p, n)
       \/ RemoveProduct(r, p)
  \/ FindCategory(r) \/ SaveProduct(r) \/ Load(r) \/ SaveImages(r)
  \/ \E i \in Image : RemoveImage(r, i) \/ DeleteFile(r, i)
  \/ FilesDeleted(r) \/ DeleteRow(r)

Next == \E r \in Request : CategoryRequest(r) \/ ProductRequest(r) \/ Stop(r)

Spec == Init /\ [][Next]_vars

-----------------------------------------------------------------------------
(* Properties.                                                             *)

\* Every variable has its type.
TypeOK ==
  /\ name \in [Category -> Name \cup {NoName}]
  /\ categoryOf \in [Product -> Category \cup {NoCategory}]
  /\ row \in [Image -> Product \cup {NoProduct}]
  /\ primary \in [Image -> BOOLEAN]
  /\ position \in [Image -> Nat]
  /\ file \in [Image -> {"none", "stored", "deleted"}]
  /\ call \in [Request ->
       [op : Op, step : Step, category : Category \cup {NoCategory},
        name : Name \cup {NoName}, product : Product \cup {NoProduct},
        images : SUBSET Image, seen : SUBSET Image, todo : SUBSET Image]]

\* "Cannot delete a category that has products": although remove() counts the
\* products long before it deletes, no interleaving with create() and update()
\* of products, or with an update() that inserts a removed product again,
\* leaves a product in a category that does not exist.
ProductsHaveCategories ==
  \A p \in Product : ProductExists(p) => CategoryExists(categoryOf[p])

\* docs/backend/ERD.md: files are removed by the application, not by the
\* cascade.  An image is shown without a file only while a removal of it is
\* under way or after one was interrupted, never after one that succeeded.
BrokenImagesAreBeingRemoved ==
  \A i \in Image : row[i] # NoProduct /\ file[i] # "stored" =>
    \E r \in Request :
      /\ call[r].op \in {"removeProduct", "removeImage"}
      /\ i \in call[r].images
      /\ call[r].step \in {"deleteFiles", "deleteRow", "stopped"}

\* A file of an upload that succeeded keeps its row or goes with it; the only
\* ones left behind are of an upload that a removal of the product missed.
NoFileForgotten ==
  \A u \in Request : call[u].op \in {"createProduct", "addImages"} /\ At(u, "ok") =>
    \A i \in call[u].images : file[i] = "stored" /\ row[i] = NoProduct =>
      \E r \in Request :
        /\ call[r].op = "removeProduct"
        /\ call[r].product = call[u].product
        /\ i \notin call[r].images

\* The primary image is displayed first, also when uploads race and images
\* were removed.
PrimaryIsFirst ==
  \A i, j \in Image : row[i] # NoProduct /\ row[i] = row[j] /\ primary[i] =>
    position[i] <= position[j]

\* "is_primary identifies the main image and position controls display order"
\* (docs/backend/ERD.md) while the uploads of a product do not overlap and no
\* image is removed: one image is primary, and no place is given twice or
\* left out.
UploadsTo(p) ==
  {u \in Request : call[u].op \in {"createProduct", "addImages"}
                     /\ call[u].product = p /\ At(u, "ok")}
InTurn(p) ==
  \A u, v \in UploadsTo(p) :
    u = v \/ call[u].images \subseteq call[v].seen \/ call[v].images \subseteq call[u].seen
AllKept(p) == \A u \in UploadsTo(p) : call[u].images \subseteq ImagesOf(p)
GalleryInOrder ==
  \A p \in Product : ImagesOf(p) # {} /\ InTurn(p) /\ AllKept(p) =>
    /\ Cardinality({i \in ImagesOf(p) : primary[i]}) = 1
    /\ {position[i] : i \in ImagesOf(p)} = 0 .. Cardinality(ImagesOf(p)) - 1
=============================================================================
