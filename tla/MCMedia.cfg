SPECIFICATION Spec
CONSTANTS
    Products = {p1}
    Categories = {c1}
    Blogs = {b1}
    Users = {u1}
    Uploads = {f1, f2}
    None = None
    Requests = {r1, r2}
    SameNames = FALSE
    MaxFailures = 1
SYMMETRY MediaSymmetry
INVARIANTS TypeOK PicturesShow NothingForgotten BlogThumbnailAlive
CHECK_DEADLOCK FALSE
