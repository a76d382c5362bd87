SPECIFICATION Spec
CONSTANTS
  Category = {c1,c2}
  Product = {p1,p2}
  NumImages = 3
  MaxFiles = 2
  Name = {n1,n2}
  Request = {r1,r2,r3}
  NoCategory = NoCategory
  NoProduct = NoProduct
  NoName = NoName
  Keep = Keep
SYMMETRY Symmetric
INVARIANTS TypeOK ProductsHaveCategories BrokenImagesAreBeingRemoved
  NoFileForgotten PrimaryIsFirst GalleryInOrder
CHECK_DEADLOCK FALSE
