------------------------------ MODULE Effects3D ------------------------------
(***************************************************************************)
(* Effects that turn a mesh in space and draw it with the blitter.  A      *)
(* function that only reads and writes the object is one step.             *)
(***************************************************************************)
EXTENDS Script

(* lib3d: tables that are built from a mesh, and an object of it. *)
CalculateVertexFaceMap ==
  MemAlloc({Buf("faceCount")}) \o MemAlloc({Buf("vertexFace")})
    \o Cpu({Buf("faceCount")}, {Buf("vertexFace")})
    \o MemFree({Buf("faceCount")})
CalculateFaceNormals == MemAlloc({Buf("faceNormal")})
CalculateEdges ==
  MemAlloc({Buf("allEdges")}) \o MemAlloc(Bufs({"edge", "faceEdge"}))
    \o Cpu({Buf("allEdges")}, Bufs({"edge", "faceEdge"}))
    \o MemFree({Buf("allEdges")})

(* A table that was not built is NULL, and not freed. *)
ResetMesh3D(built) == MemFree(Bufs(built))

Cube == {Buf("cube")}
UpdateObjectTransformation == Cpu({}, Cube)
UpdateFaceVisibility == Cpu({Buf("faceNormal")}, Cube)
UpdateVertexVisibility == Cpu({}, Cube)
SortFaces == Cpu({}, Cube)

-----------------------------------------------------------------------------
(* effects/bobs3d: the copper list waits for the first line on display      *)
(* before it loads the pointers, and Render changes them after the wait.    *)
Bobs3DMakeCopperList ==
  NewCopList({Buf("cp")}) \o CopSetupBitplanes(Buf("cp"), {Nth("screen", 1)})
Bobs3DInit ==
  NewObject3D(Cube) \o NewBitmap(Both("screen")) \o Bobs3DMakeCopperList
    \o CopListActivate(Buf("cp")) \o EnableDMA({"raster", "blitter"})
Bobs3DKill ==
  DeleteCopList({Buf("cp")}) \o DisableDMA({"raster", "blitter"})
    \o DeleteBitmap(Both("screen")) \o DeleteObject3D(Cube)
Bobs3DTransformVertices == Cpu({}, Cube)
Bobs3DBlitterOrArea(dst) == Blit({dst}, dst)
Bobs3DDrawObject(dst) == Cpu(Cube, {}) \o Bobs3DBlitterOrArea(dst)
Bobs3DBitmapClearI(bm) == Blit({}, bm)
Bobs3DRender ==
  Bobs3DBitmapClearI(Cur("screen")) \o UpdateObjectTransformation
    \o Bobs3DTransformVertices \o WaitBlitter
    \o Bobs3DDrawObject(Cur("screen")) \o TaskWaitVBlank
    \o CopUpdateBitplanes(Buf("cp"), {Cur("screen")}) \o Swap(2)
Bobs3D == [Effect("bobs3d", 0) EXCEPT !.init = Bobs3DInit,
             !.kill = Bobs3DKill, !.render = {Bobs3DRender}]

-----------------------------------------------------------------------------
(* effects/wireframe: as effects/anim. *)
WireframeLoad ==
  CalculateVertexFaceMap \o CalculateFaceNormals \o CalculateEdges
WireframeUnLoad ==
  ResetMesh3D({"vertexFace", "faceNormal", "edge", "faceEdge"})
WireframeInit ==
  NewObject3D(Cube) \o NewBitmap(Row("screen", 5)) \o NewCopList({Buf("cp")})
    \o CopSetupBitplanes(Buf("cp"), Row("screen", 4))
    \o CopListActivate(Buf("cp")) \o EnableDMA({"blitter", "raster"})
WireframeKill ==
  DeleteCopList({Buf("cp")}) \o DeleteBitmap(Row("screen", 5))
    \o DeleteObject3D(Cube)
WireframePlane(i) == At("screen", i, 5)
WireframeUpdateFaceVisibilityFast == Cpu({Buf("faceNormal")}, Cube)
WireframeUpdateEdgeVisibility == Cpu({Buf("faceEdge")}, Cube)
WireframeTransformVertices == Cpu({}, Cube)
WireframeDrawObject(bplpt) ==
  WaitBlitter \o Cpu({Buf("edge")} \union Cube, {}) \o Blit({bplpt}, bplpt)
WireframeRender ==
  BlitterClear(WireframePlane(0)) \o UpdateObjectTransformation
    \o WireframeUpdateFaceVisibilityFast \o WireframeUpdateEdgeVisibility
    \o WireframeTransformVertices \o WireframeDrawObject(WireframePlane(0))
    \o CopUpdateBitplanes(Buf("cp"), {WireframePlane(i) : i \in {2, 3, 4, 0}})
    \o TaskWaitVBlank \o Swap(5)
Wireframe == [Effect("wireframe", 0) EXCEPT !.load = WireframeLoad,
                !.unload = WireframeUnLoad, !.init = WireframeInit,
                !.kill = WireframeKill, !.render = {WireframeRender}]

-----------------------------------------------------------------------------
(* effects/flatshade: faces are drawn and filled in a buffer, and copied. *)
FlatShadeLoad == CalculateFaceNormals
FlatShadeUnLoad == ResetMesh3D({"faceNormal"})
FlatShadeInit ==
  NewObject3D(Cube) \o NewBitmap(Both("screen")) \o NewBitmap({Buf("buffer")})
    \o NewCopList({Buf("cp")})
    \o CopSetupBitplanes(Buf("cp"), {Nth("screen", 0)})
    \o CopListActivate(Buf("cp")) \o EnableDMA({"blitter", "raster"})
FlatShadeKill ==
  DisableDMA({"raster"}) \o DeleteBitmap(Both("screen"))
    \o DeleteBitmap({Buf("buffer")}) \o DeleteCopList({Buf("cp")})
    \o DeleteObject3D(Cube)
FlatShadeTransformVertices == Cpu({}, Cube)
FlatShadeDrawObject ==
  SetBlitter \o Cpu(Cube, {}) \o Blit({Buf("buffer")}, Buf("buffer"))
    \o Blit({Buf("buffer")}, Buf("buffer"))
    \o Blit({Buf("buffer"), Cur("screen")}, Cur("screen"))
    \o Blit({}, Buf("buffer"))
FlatShadeBitmapClearFast(dst) == Blit({}, dst)
FlatShadeRender ==
  FlatShadeBitmapClearFast(Cur("screen")) \o UpdateObjectTransformation
    \o UpdateFaceVisibility \o UpdateVertexVisibility
    \o FlatShadeTransformVertices \o SortFaces \o FlatShadeDrawObject
    \o CopUpdateBitplanes(Buf("cp"), {Cur("screen")})
    \o TaskWaitVBlank \o Swap(2)
FlatShade == [Effect("flatshade", 0) EXCEPT !.load = FlatShadeLoad,
                !.unload = FlatShadeUnLoad, !.init = FlatShadeInit,
                !.kill = FlatShadeKill, !.render = {FlatShadeRender}]

-----------------------------------------------------------------------------
(* effects/flatshade-convex *)
ConvexLoad == CalculateVertexFaceMap \o CalculateFaceNormals \o CalculateEdges
ConvexUnLoad ==
  ResetMesh3D({"vertexFace", "faceNormal", "edge", "faceEdge"})
ConvexInit ==
  NewObject3D(Cube) \o NewBitmap(Both("screen")) \o NewCopList({Buf("cp")})
    \o CopSetupBitplanes(Buf("cp"), {Nth("screen", 0)})
    \o CopListActivate(Buf("cp")) \o EnableDMA({"blitter", "raster"})
ConvexKill ==
  DeleteBitmap(Both("screen")) \o DeleteCopList({Buf("cp")})
    \o DeleteObject3D(Cube)
ConvexUpdateEdgeVisibilityConvex == Cpu({Buf("faceEdge")}, Cube)
ConvexTransformVertices == Cpu({}, Cube)
ConvexDrawObject(screen) ==
  WaitBlitter \o Cpu({Buf("edge")} \union Cube, {}) \o Blit({screen}, screen)
ConvexBitmapClearFast(dst) == Blit({}, dst)
ConvexBitmapFillFast(dst) == Blit({dst}, dst) \o WaitBlitter
ConvexRender ==
  ConvexBitmapClearFast(Cur("screen")) \o UpdateObjectTransformation
    \o UpdateFaceVisibility \o ConvexUpdateEdgeVisibilityConvex
    \o ConvexTransformVertices \o ConvexDrawObject(Cur("screen"))
    \o ConvexBitmapFillFast(Cur("screen"))
    \o CopUpdateBitplanes(Buf("cp"), {Cur("screen")})
    \o TaskWaitVBlank \o Swap(2)
FlatShadeConvex ==
  [Effect("flatshade-convex", 0) EXCEPT !.load = ConvexLoad,
     !.unload = ConvexUnLoad, !.init = ConvexInit, !.kill = ConvexKill,
     !.render = {ConvexRender}]

-----------------------------------------------------------------------------
(* effects/blurred3d: a frame is made from the one on display. *)
Blurred3DLoad == CalculateEdges \o CalculateFaceNormals
Blurred3DUnLoad == ResetMesh3D({"edge", "faceEdge", "faceNormal"})
Blurred3DMakeCopperList ==
  NewCopList({Buf("cp")}) \o CopSetupBitplanes(Buf("cp"), {Nth("screen", 0)})
Blurred3DInit ==
  NewObject3D(Cube) \o NewBitmap(Both("screen"))
    \o NewBitmap(Bufs({"carry", "scratchpad"})) \o EnableDMA({"blitter"})
    \o Blurred3DMakeCopperList \o CopListActivate(Buf("cp"))
    \o EnableDMA({"raster"})
Blurred3DKill ==
  DisableDMA({"raster", "blitter"}) \o DeleteBitmap(Both("screen"))
    \o DeleteBitmap(Bufs({"scratchpad", "carry"}))
    \o DeleteCopList({Buf("cp")}) \o DeleteObject3D(Cube)
Blurred3DTransformVertices == Cpu({}, Cube)
Blurred3DDrawLine == Blit({Buf("scratchpad")}, Buf("scratchpad"))
Blurred3DDrawObject ==
  SetBlitter \o Cpu({Buf("edge")} \union Cube, {}) \o Blurred3DDrawLine
    \o Blit({Buf("scratchpad")}, Buf("scratchpad"))
    \o Blit({Buf("scratchpad"), Buf("carry")}, Buf("carry"))
    \o Blit({}, Buf("scratchpad"))
Blurred3DBitmapDecSaturatedFast(dst, src) ==
  Blit({src}, Buf("carry")) \o Blit({src}, dst)
    \o Blit({src, Buf("carry")}, Buf("carry"))
    \o Blit({src, Buf("carry")}, dst) \o Blit({dst, Buf("carry")}, dst)
Blurred3DBitmapIncSaturatedFast(dst, src) ==
  WaitBlitter \o Blit({src, Buf("carry")}, Buf("carry"))
    \o Blit({src, Buf("carry")}, dst) \o Blit({dst, Buf("carry")}, dst)
Blurred3DRenderObject3D ==
  BlitterClear(Buf("carry")) \o UpdateObjectTransformation
    \o UpdateFaceVisibility \o Blurred3DTransformVertices
    \o Blurred3DDrawObject
Blurred3DRender ==
  { fade[1] \o Blurred3DRenderObject3D
      \o Blurred3DBitmapIncSaturatedFast(Cur("screen"), fade[2])
      \o CopUpdateBitplanes(Buf("cp"), {Cur("screen")})
      \o TaskWaitVBlank \o Swap(2) :
    fade \in { << <<>>, Other("screen") >>,
               << Blurred3DBitmapDecSaturatedFast(Cur("screen"),
                                                  Other("screen")),
                  Cur("screen") >> } }
Blurred3D == [Effect("blurred3d", 0) EXCEPT !.load = Blurred3DLoad,
                !.unload = Blurred3DUnLoad, !.init = Blurred3DInit,
                !.kill = Blurred3DKill, !.render = Blurred3DRender]
=============================================================================
